---- MODULE Spec2Model ----
(***************************************************************************)
(* A model of the novel translator: language detection with its heuristic *)
(* fallback (app/detect_lang.py), the sentence chunker, the per-chunk      *)
(* translation loop and its chapter glossary (app/chapter_translate.py),   *)
(* the glossary (app/glossary.py), the tone pass (app/emotion.py) and the  *)
(* archive-level orchestration (app/novel_translate.py, app/utils.py).     *)
(*                                                                         *)
(* Strings.  A Python str is a sequence of tokens [s, n]: s names a        *)
(* character or a word and n is the number of characters the token stands  *)
(* for.  A one-character token has n = 1, except "x", a run of n letters   *)
(* x, which lets a text be longer than the 512-character chunk size and    *)
(* the 1000-character detection window.  A word token ("Alice", "amazing", *)
(* a "[ES]" marker) has n = its length; a slice that cuts a word keeps the *)
(* token with the smaller n.  len() is the sum of the n.                   *)
(***************************************************************************)
EXTENDS Integers, Sequences, FiniteSets, TLC

\* ------------------------------------------------------------------ bounds
\* Longest text (in tokens) the pure-function specifications enumerate.
MaxTextLen == 3
\* Number of top-level calls (translate_novel, translate_chapter) per run.
MaxCalls == 2

\* ------------------------------------------------------- program constants
max_chunk_size == 512
DetectWindow == 1000
SampleSize == 3
GlossaryThreshold == 2
MinTermLen == 2
ContextLimit == 5
GlossarySampleParts == 5

\* ------------------------------------------------------------------ strings
Ch(c) == [s |-> c, n |-> 1]
XRun(k) == [s |-> "x", n |-> k]
Word(w, k) == [s |-> w, n |-> k]

Alice == Word("Alice", 5)
Hello == Word("Hello", 5)
World == Word("World", 5)
again == Word("again", 5)
amazing == Word("amazing", 7)
AMAZING == Word("AMAZING", 7)

\* str.strip() and str.split() treat these as whitespace.
IsSpace(t) == t.s \in {" ", "\n"}

RECURSIVE StrLen(_)
StrLen(text) == IF text = <<>> THEN 0 ELSE Head(text).n + StrLen(Tail(text))

RECURSIVE LStrip(_)
LStrip(text) ==
    IF text = <<>> THEN <<>>
    ELSE IF IsSpace(Head(text)) THEN LStrip(Tail(text)) ELSE text

RECURSIVE RStrip(_)
RStrip(text) ==
    IF text = <<>> THEN <<>>
    ELSE IF IsSpace(text[Len(text)]) THEN RStrip(SubSeq(text, 1, Len(text) - 1))
    ELSE text

\* str.strip()
Strip(text) == RStrip(LStrip(text))

\* text[:k]
RECURSIVE Prefix(_, _)
Prefix(text, k) ==
    IF text = <<>> \/ k <= 0 THEN <<>>
    ELSE IF Head(text).n <= k
         THEN <<Head(text)>> \o Prefix(Tail(text), k - Head(text).n)
         ELSE <<[s |-> Head(text).s, n |-> k]>>

\* text.replace('\n', ' ')
ReplaceNewlines(text) ==
    [i \in 1..Len(text) |-> IF text[i].s = "\n" THEN Ch(" ") ELSE text[i]]

\* The index of the first ". " at or after position i, 0 when there is none.
RECURSIVE FindDelim(_, _)
FindDelim(text, i) ==
    IF i + 1 > Len(text) THEN 0
    ELSE IF text[i].s = "." /\ text[i + 1].s = " " THEN i
    ELSE FindDelim(text, i + 1)

\* text.split('. '): never empty, "" splits into [""].
RECURSIVE SplitSentences(_)
SplitSentences(text) ==
    LET d == FindDelim(text, 1) IN
    IF d = 0 THEN <<text>>
    ELSE <<SubSeq(text, 1, d - 1)>> \o SplitSentences(SubSeq(text, d + 2, Len(text)))

\* sep.join(parts)
RECURSIVE Join(_, _)
Join(parts, sep) ==
    IF parts = <<>> THEN <<>>
    ELSE IF Len(parts) = 1 THEN parts[1]
    ELSE parts[1] \o sep \o Join(Tail(parts), sep)

\* ---------------------------------------------------------------- languages
Langs == {"en", "es", "fr"}

\* target_lang.upper() inside the "[..]" marker of the mock translation.
UpperTag(lang) ==
    CASE lang = "en" -> Word("[EN]", 4)
      [] lang = "es" -> Word("[ES]", 4)
      [] lang = "fr" -> Word("[FR]", 4)
      [] OTHER -> Word("[??]", 4)


\* ------------------------------------------------------------- environment
\* What is installed beside the application: the langdetect package, the
\* onnxruntime package and the model files under models/.
Environments ==
    { [langdetect |-> FALSE, onnxruntime |-> FALSE, models |-> {}],
      [langdetect |-> TRUE,  onnxruntime |-> FALSE, models |-> {}],
      [langdetect |-> TRUE,  onnxruntime |-> TRUE,
       models |-> {"translation_en2mul_quantized.onnx"}],
      [langdetect |-> TRUE,  onnxruntime |-> TRUE,
       models |-> {"emotion_quantized.onnx"}] }

\* -------------------------------------------------------- detect_lang.py
\* What langdetect.detect does with a text once it is imported: it returns a
\* code or raises.  The library seeds its sampling at random, so the outcome is
\* a choice of the environment.
DetectorOutcomes == {"en", "es", "zh-cn", "LangDetectException", "Exception"}

\* language_mapping.get(detected_lang, detected_lang)
language_mapping(code) == IF code \in {"zh-cn", "zh-tw"} THEN "zh" ELSE code

\* The fallback's marker lists, cut down to the markers the model's alphabet can
\* spell: every one of them is a word followed by a space.  text_lower.count(m)
\* summed over a language's markers.
MarkerHit(tok, lang) ==
    CASE tok = Ch("a") /\ lang \in {"es", "it", "pt"} -> 1
      [] tok = Alice /\ lang \in {"fr", "it", "pt"} -> 1
      [] tok = Hello /\ lang \in {"es", "pt"} -> 1
      [] tok = again /\ lang \in {"de", "it"} -> 1
      [] OTHER -> 0

RECURSIVE MarkerScore(_, _, _)
MarkerScore(text, lang, i) ==
    IF i + 1 > Len(text) THEN 0
    ELSE (IF text[i + 1].s = " " THEN MarkerHit(text[i], lang) ELSE 0)
         + MarkerScore(text, lang, i + 1)

\* The insertion order of the patterns dict: max() keeps the first maximum.
PatternOrder == <<"es", "fr", "de", "it", "pt", "ja", "ko", "zh", "ru">>

RECURSIVE ArgMaxFrom(_, _, _)
ArgMaxFrom(text, i, best) ==
    IF i > Len(PatternOrder) THEN best
    ELSE IF MarkerScore(text, PatternOrder[i], 1) > MarkerScore(text, best, 1)
         THEN ArgMaxFrom(text, i + 1, PatternOrder[i])
         ELSE ArgMaxFrom(text, i + 1, best)

HasChar(text, c) == \E i \in 1..Len(text) : text[i].s = c /\ text[i].n > 0

fallback_language_detection(text) ==
    IF text = <<>> THEN "en"
    ELSE LET detected_lang == ArgMaxFrom(text, 2, PatternOrder[1]) IN
         IF MarkerScore(text, detected_lang, 1) > 0 THEN detected_lang
         ELSE IF HasChar(text, "CJK") THEN "zh"
         ELSE IF HasChar(text, "HIRA") THEN "ja"
         ELSE "en"

\* clean_text = text.strip()[:1000]
clean_text(text) == Prefix(Strip(text), DetectWindow)

\* The except clauses of detect_language are matched in order, and the first
\* one names LangDetectException, a local the failed import never bound:
\* matching it raises UnboundLocalError, which leaves the function.
ImportFailure(text) == [raised |-> TRUE, lang |-> "UnboundLocalError"]

\* detect_language(text) in an environment where langdetect is installed or
\* not, the detector answering `outcome`.
detect_language(text, installed, outcome) ==
    IF Strip(text) = <<>> THEN [raised |-> FALSE, lang |-> "en"]
    ELSE IF ~installed THEN ImportFailure(text)
    ELSE IF outcome \in {"LangDetectException", "Exception"}
         THEN [raised |-> FALSE, lang |-> fallback_language_detection(clean_text(text))]
         ELSE [raised |-> FALSE, lang |-> language_mapping(outcome)]

\* ------------------------------------------------------------ emotion.py
RECURSIVE CountWords(_, _)
CountWords(text, words) ==
    IF text = <<>> THEN 0
    ELSE (IF Head(text) \in words THEN 1 ELSE 0) + CountWords(Tail(text), words)

\* analyze_emotion_fallback: text_lower.count(keyword) per emotion.  Of the
\* alphabet's words "amazing" is a joy keyword and "Hello" holds the anger
\* keyword "hell"; no other word holds a keyword.
JoyCount(text) == CountWords(text, {amazing, AMAZING})
AngerCount(text) == CountWords(text, {Hello})

\* apply_emotion_markers when joy is the dominant emotion with an intensity
\* above 0.6: the emotional words are upper-cased.  Anger's emotional words are
\* none of the alphabet's, so a dominant anger changes nothing.
Emphasize(text) ==
    [i \in 1..Len(text) |-> IF text[i] = amazing THEN AMAZING ELSE text[i]]

\* A tone pass that leaves every text as it is.
NoTone(text) == text

FallbackTone(text) ==
    LET joy == JoyCount(text)
        total == JoyCount(text) + AngerCount(text)
    IN IF joy > 0 /\ joy >= AngerCount(text) /\ 10 * joy > 6 * total
       THEN Emphasize(text) ELSE text

\* apply_emotion(text): the set of texts it may return.  Without the emotion
\* model the keyword fallback decides; with it the scores are the model's.
apply_emotion(text, env) ==
    IF Strip(text) = <<>> THEN {text}
    ELSE IF env.onnxruntime /\ "emotion_quantized.onnx" \in env.models
         THEN {text, Emphasize(text)}
         ELSE {FallbackTone(text)}

\* ------------------------------------------------------------ glossary.py
None == <<[s |-> "None", n |-> 0]>>

Truthy(v) == v # None /\ v # <<>>

Put(f, k, v) == [x \in (DOMAIN f) \cup {k} |-> IF x = k THEN v ELSE f[x]]
Get(f, k, default) == IF k \in DOMAIN f THEN f[k] ELSE default
Pop(f, k) == [x \in (DOMAIN f) \ {k} |-> f[x]]

EmptyMap == [x \in {} |-> 0]

\* Glossary()
NewGlossary == [terms |-> EmptyMap, usage_count |-> EmptyMap, context |-> EmptyMap]

InList(x, list) == \E i \in 1..Len(list) : list[i] = x

\* A truncation that keeps the oldest entries.
FirstN(list, k) ==
    IF Len(list) > k THEN SubSeq(list, 1, k) ELSE list

\* list[-k:]
LastN(list, k) ==
    IF Len(list) > k THEN SubSeq(list, Len(list) - k + 1, Len(list)) ELSE list

\* The context branch of add_term.
add_context(ctx, original, context) ==
    IF ~Truthy(context) THEN ctx
    ELSE LET history == Get(ctx, original, <<>>) IN
         IF InList(context, history) THEN Put(ctx, original, history)
         ELSE Put(ctx, original, LastN(Append(history, context), ContextLimit))

\* An add_term that counts a use only when the stored translation changes.
CountChangesOnly(g, original, translated, context) ==
    IF ~Truthy(original) \/ Strip(original) = <<>> THEN g
    ELSE LET o == Strip(original)
             t == IF Truthy(translated) THEN Strip(translated) ELSE <<>>
             same == o \in DOMAIN g.terms /\ g.terms[o] = t
         IN [terms |-> Put(g.terms, o, t),
             usage_count |-> Put(g.usage_count, o,
                                 Get(g.usage_count, o, 0) + (IF same THEN 0 ELSE 1)),
             context |-> add_context(g.context, o, context)]

\* add_term(original, translated, context)
add_term(g, original, translated, context) ==
    IF ~Truthy(original) \/ Strip(original) = <<>> THEN g
    ELSE LET o == Strip(original)
             t == IF Truthy(translated) THEN Strip(translated) ELSE <<>>
         IN [terms |-> Put(g.terms, o, t),
             usage_count |-> Put(g.usage_count, o, Get(g.usage_count, o, 0) + 1),
             context |-> add_context(g.context, o, context)]

\* A lookup that returns whatever is stored for the term.
StoredValue(g, original) ==
    IF ~Truthy(original) \/ Strip(original) = <<>> THEN None
    ELSE Get(g.terms, Strip(original), None)

\* get_translation(original)
get_translation(g, original) ==
    IF ~Truthy(original) \/ Strip(original) = <<>> THEN None
    ELSE LET translation == Get(g.terms, Strip(original), None) IN
         IF Truthy(translation) /\ Strip(translation) # <<>> THEN translation
         ELSE None

has_term(g, original) ==
    IF Truthy(original) THEN Strip(original) \in DOMAIN g.terms ELSE FALSE

get_usage_count(g, original) ==
    Get(g.usage_count, IF Truthy(original) THEN Strip(original) ELSE <<>>, 0)

\* ----------------------------------------------------- chapter_translate.py
\* load_translation_model: None unless onnxruntime imports and the model file
\* for the direction exists.
model_path(source_lang) ==
    IF source_lang = "en" THEN "translation_en2mul_quantized.onnx"
    ELSE "translation_mul2en_quantized.onnx"

load_translation_model(source_lang, target_lang, env) ==
    IF env.onnxruntime /\ model_path(source_lang) \in env.models
    THEN model_path(source_lang)
    ELSE "None"

\* A loop that gives every fragment a unit of its own.
FlushEveryFragment(sentences, chunks, current_chunk, max_size) ==
    [i \in 1..Len(sentences) |-> Strip(sentences[i] \o <<Ch("."), Ch(" ")>>)]

RECURSIVE ChunkLoop(_, _, _, _)
ChunkLoop(sentences, chunks, current_chunk, max_size) ==
    IF sentences = <<>>
    THEN IF current_chunk # <<>> THEN Append(chunks, Strip(current_chunk)) ELSE chunks
    ELSE LET sentence == Head(sentences) IN
         IF StrLen(current_chunk) + StrLen(sentence) + 2 <= max_size
         THEN ChunkLoop(Tail(sentences), chunks,
                        current_chunk \o sentence \o <<Ch("."), Ch(" ")>>, max_size)
         ELSE ChunkLoop(Tail(sentences),
                        IF current_chunk # <<>>
                        THEN Append(chunks, Strip(current_chunk)) ELSE chunks,
                        sentence \o <<Ch("."), Ch(" ")>>, max_size)

\* A splitter that returns the whole text as one unit.
WholeText(text, max_size) ==
    <<Strip(ReplaceNewlines(text) \o <<Ch("."), Ch(" ")>>)>>

\* split_text_into_chunks(text, max_chunk_size)
split_text_into_chunks(text, max_size) ==
    ChunkLoop(SplitSentences(ReplaceNewlines(text)), <<>>, <<>>, max_size)

\* A backend that hands the chunk back unmarked.
EchoChunk(text_chunk, target_lang) == text_chunk

\* f"[{target_lang.upper()}] {text_chunk}"
MockTranslation(text_chunk, target_lang) ==
    <<UpperTag(target_lang), Ch(" ")>> \o text_chunk

\* What model_session.run does with a chunk: it returns a text, a text that
\* ends in a newline, no output, or it raises.
RunOutcomes == {"text", "padded", "no_output", "raises"}

\* The text a model returns for a chunk: some string other than the mock's.
ModelText(text_chunk, target_lang) ==
    <<Word("<" \o target_lang \o ">", 4), Ch(" ")>> \o text_chunk

\* The except clause of translate_text_chunk: the error is logged and the mock
\* translation returned.
InvocationFailure(text_chunk, target_lang) ==
    [raised |-> FALSE, text |-> MockTranslation(text_chunk, target_lang)]

translate_text_chunk(text_chunk, model_session, outcome, source_lang, target_lang) ==
    IF model_session = "None"
    THEN [raised |-> FALSE, text |-> MockTranslation(text_chunk, target_lang)]
    ELSE CASE outcome = "text" ->
                [raised |-> FALSE, text |-> ModelText(text_chunk, target_lang)]
           [] outcome = "padded" ->
                [raised |-> FALSE,
                 text |-> ModelText(text_chunk, target_lang) \o <<Ch("\n")>>]
           [] outcome = "no_output" -> [raised |-> FALSE, text |-> text_chunk]
           [] OTHER -> InvocationFailure(text_chunk, target_lang)

\* ------------------------------------------------------------- the inputs
\* The chapter texts of the archives the model translates.
HelloWorld == <<Hello, Ch("."), Ch(" "), World, Ch(".")>>
HelloAgain == <<Hello, Ch(" "), again, Ch(".")>>
AliceText == <<Alice, Ch(" "), amazing, Ch("."), Ch(" "), Alice, Ch(" "), again, Ch(".")>>
LongText == <<XRun(300), Ch("."), Ch(" "), XRun(300)>>
BlankText == <<Ch(" "), Ch("\n")>>
Picture == <<Word("PNG", 3)>>

\* An archive: whether the file exists, whether it is a readable ZIP, and its
\* members as (path, data), a path being its components.
Archive(name) ==
    CASE name = "missing.zip" -> [exists |-> FALSE, valid |-> FALSE, members |-> <<>>]
      [] name = "corrupt.zip" -> [exists |-> TRUE, valid |-> FALSE, members |-> <<>>]
      [] name = "pictures.zip" ->
            [exists |-> TRUE, valid |-> TRUE,
             members |-> << [path |-> <<"cover.png">>, data |-> Picture] >>]
      [] name = "scenario.zip" ->
            [exists |-> TRUE, valid |-> TRUE,
             members |-> << [path |-> <<"01.txt">>, data |-> HelloWorld],
                            [path |-> <<"02.txt">>, data |-> HelloAgain] >>]
      [] name = "novel.zip" ->
            [exists |-> TRUE, valid |-> TRUE,
             members |-> << [path |-> <<"part1", "01.TXT">>, data |-> AliceText],
                            [path |-> <<"cover.png">>, data |-> Picture] >>]
      [] name = "volumes.zip" ->
            [exists |-> TRUE, valid |-> TRUE,
             members |-> << [path |-> <<"vol1", "02.txt">>, data |-> HelloAgain],
                            [path |-> <<"vol2", "01.txt">>, data |-> HelloWorld] >>]
      [] name = "series.zip" ->
            [exists |-> TRUE, valid |-> TRUE,
             members |-> << [path |-> <<"04.txt">>, data |-> HelloAgain],
                            [path |-> <<"02.txt">>, data |-> BlankText],
                            [path |-> <<"03.text">>, data |-> AliceText],
                            [path |-> <<"01.txt">>, data |-> HelloWorld] >>]
      [] OTHER -> [exists |-> FALSE, valid |-> FALSE, members |-> <<>>]

Zips == {"missing.zip", "corrupt.zip", "pictures.zip", "scenario.zip", "novel.zip"}

\* The sources translate_chapter is called on directly: a path that does not
\* exist, or a file holding a text.
Missing == <<[s |-> "missing", n |-> 0]>>
ChapterSources == {Missing, HelloWorld, LongText, BlankText}

\* file.lower().endswith(('.txt', '.text'))
IsChapterName(file) == file \in {"01.txt", "02.txt", "01.TXT", "03.text", "04.txt"}

\* The position of a file name in Python's string order.
NameRank(file) ==
    CASE file = "01.TXT" -> 1
      [] file = "01.txt" -> 2
      [] file = "02.txt" -> 3
      [] file = "03.text" -> 4
      [] file = "04.txt" -> 5
      [] OTHER -> 6

\* os.path.isabs(member.filename) or ".." in member.filename
IsUnsafe(path) ==
    \/ path[1] = "/"
    \/ \E i \in 1..Len(path) : path[i] \in {"..", "ch..1.txt"}

FileName(path) == path[Len(path)]

SeqToSet(q) == {q[i] : i \in 1..Len(q)}


\* ------------------------------------------------------------- utils.py
\* What the operating system does with a read or a write of an existing file.
IOOutcomes == {"ok", "OSError"}

\* The loop of extract_zip over zip_ref.infolist(): every member but the unsafe
\* ones is extracted under the extraction root.
extract_members(members) ==
    LET safe == {i \in 1..Len(members) : ~IsUnsafe(members[i].path)}
    IN [p \in {members[i].path : i \in safe} |->
          LET i == CHOOSE k \in safe : members[k].path = p
          IN members[i].data]

\* The files extract_zip leaves under the extraction root.
extract_zip(zip_path) == extract_members(Archive(zip_path).members)

\* A read that takes a missing file for an empty one.
MissingReadsEmpty(file, io) ==
    IF io # "ok" THEN [raised |-> TRUE, text |-> <<>>]
    ELSE [raised |-> FALSE, text |-> IF file.exists THEN file.data ELSE <<>>]

\* read_text(file_path): the text, or an exception when the file is missing or
\* the read fails.
read_text(file, io) ==
    IF ~file.exists \/ io # "ok" THEN [raised |-> TRUE, text |-> <<>>]
    ELSE [raised |-> FALSE, text |-> file.data]

\* -------------------------------------------------------- novel_translate.py
\* The sequences get_chapter_files may return: the chapter files of the tree,
\* sorted by file name.  list.sort is stable and os.walk's order is the file
\* system's, so files of one name come in either order.
IsSortedByName(files) ==
    \A i \in 1..(Len(files) - 1) :
        NameRank(files[i].filename) <= NameRank(files[i + 1].filename)

RECURSIVE Orderings(_)
Orderings(paths) ==
    IF paths = {} THEN {<<>>}
    ELSE UNION { { <<[filename |-> FileName(p), path |-> p]>> \o rest :
                   rest \in Orderings(paths \ {p}) } : p \in paths }

get_chapter_files(dir) ==
    { files \in Orderings({p \in DOMAIN dir : IsChapterName(FileName(p))}) :
        IsSortedByName(files) }

\* language_counts is a dict: a sequence of (lang, count) in insertion order.
CountLanguage(language_counts, lang) ==
    IF \E i \in 1..Len(language_counts) : language_counts[i].lang = lang
    THEN [i \in 1..Len(language_counts) |->
            IF language_counts[i].lang = lang
            THEN [lang |-> lang, count |-> language_counts[i].count + 1]
            ELSE language_counts[i]]
    ELSE Append(language_counts, [lang |-> lang, count |-> 1])

\* max(language_counts, key=language_counts.get): the first of the largest.
RECURSIVE FirstMax(_, _, _)
FirstMax(language_counts, i, best) ==
    IF i > Len(language_counts) THEN language_counts[best].lang
    ELSE IF language_counts[i].count > language_counts[best].count
         THEN FirstMax(language_counts, i + 1, i)
         ELSE FirstMax(language_counts, i + 1, best)

most_common_lang(language_counts) ==
    IF language_counts # <<>> THEN FirstMax(language_counts, 2, 1) ELSE "en"

Min(a, b) == IF a <= b THEN a ELSE b
Max(a, b) == IF a >= b THEN a ELSE b

\* A sample of every chapter file.
SampleAll(chapter_files) == Len(chapter_files)

\* sample_size = min(3, len(chapter_files))
sample_size(chapter_files) == Min(SampleSize, Len(chapter_files))

\* text.split(): the maximal runs of non-whitespace.
RECURSIVE WordEnd(_, _)
WordEnd(text, i) ==
    IF i > Len(text) \/ IsSpace(text[i]) THEN i - 1 ELSE WordEnd(text, i + 1)

RECURSIVE SplitWords(_)
SplitWords(text) ==
    LET t == LStrip(text) IN
    IF t = <<>> THEN <<>>
    ELSE LET e == WordEnd(t, 1) IN
         <<SubSeq(t, 1, e)>> \o SplitWords(SubSeq(t, e + 1, Len(t)))

\* The case of a token's characters: all lower, an upper followed by lowers,
\* all upper, letters without case, or not letters.
CaseOf(tok) ==
    CASE tok.s \in {"a", "x", "again", "amazing"} -> "lower"
      [] tok.s \in {"Alice", "Hello", "World"} -> IF tok.n = 1 THEN "upper1" ELSE "title"
      [] tok.s \in {"AMAZING", "PNG"} -> IF tok.n = 1 THEN "upper1" ELSE "upper"
      [] tok.s \in {"CJK", "HIRA"} -> "uncased"
      [] OTHER -> "other"

\* word.isalpha()
isalpha(word) ==
    word # <<>> /\ \A i \in 1..Len(word) : CaseOf(word[i]) # "other" /\ word[i].n > 0

\* word.istitle(): an upper-case letter only after an uncased one, a lower-case
\* letter only after a cased one, and at least one cased letter.
RECURSIVE TitleFrom(_, _, _, _)
TitleFrom(word, i, prev_cased, cased) ==
    IF i > Len(word) THEN cased
    ELSE LET c == CaseOf(word[i]) IN
         CASE c = "lower" -> prev_cased /\ TitleFrom(word, i + 1, TRUE, TRUE)
           [] c \in {"title", "upper1"} -> ~prev_cased /\ TitleFrom(word, i + 1, TRUE, TRUE)
           [] c = "upper" -> FALSE
           [] OTHER -> TitleFrom(word, i + 1, FALSE, cased)

istitle(word) == TitleFrom(word, 1, FALSE, FALSE)

IsCommonTermCandidate(word) ==
    istitle(word) /\ StrLen(word) > MinTermLen /\ isalpha(word)

\* range(0, len(chapter_files), max(1, len(chapter_files) // 5)), from 1.
sample_indices(count) ==
    LET step == Max(1, count \div GlossarySampleParts)
    IN {i \in 1..count : (i - 1) % step = 0}

RECURSIVE CountIn(_, _)
CountIn(words, w) ==
    IF words = <<>> THEN 0
    ELSE (IF Head(words) = w THEN 1 ELSE 0) + CountIn(Tail(words), w)

RECURSIVE ConcatAll(_)
ConcatAll(lists) == IF lists = <<>> THEN <<>> ELSE Head(lists) \o ConcatAll(Tail(lists))

\* The words build_novel_glossary reads from the sampled files.
SampledWords(dir, chapter_files) ==
    ConcatAll([i \in 1..Len(chapter_files) |->
        IF i \in sample_indices(Len(chapter_files))
        THEN SplitWords(dir[chapter_files[i].path])
        ELSE <<>>])

common_terms(dir, chapter_files) ==
    LET words == SampledWords(dir, chapter_files)
    IN {w \in SeqToSet(words) :
          IsCommonTermCandidate(w) /\ CountIn(words, w) >= GlossaryThreshold}

RECURSIVE AddPlaceholders(_, _)
AddPlaceholders(g, terms) ==
    IF terms = {} THEN g
    ELSE LET term == CHOOSE t \in terms : TRUE
         IN AddPlaceholders(add_term(g, term, <<>>, None), terms \ {term})

\* The glossary a job seeds: the module-level novel_glossary as it stands.
JobGlossary(existing) == existing

build_novel_glossary(existing, dir, chapter_files) ==
    AddPlaceholders(JobGlossary(existing), common_terms(dir, chapter_files))

\* A directory that outlives the call.
KeepTemporaryDirectory(dir) == dir

\* Leaving the `with tempfile.TemporaryDirectory()` block, by return or by
\* exception, deletes the directory and both trees under it.
NoTempDir == [exists |-> FALSE, extracted |-> EmptyMap, translated |-> EmptyMap]
ExitTemporaryDirectory(dir) == NoTempDir

\* An orchestrator without the check for an empty list of chapters.
NeverNoChapters(chapter_files) == FALSE

\* if not chapter_files
NoChapters(chapter_files) == chapter_files = <<>>


\* ------------------------------------------------------------------ state
VARIABLES
    env,               \* what is installed beside the application
    novel_glossary,    \* novel_translate.novel_glossary, a module global
    chapter_glossary,  \* chapter_translate.chapter_glossary, a module global
    permanent_zip,     \* the file <tmp>/translated_novel.zip
    pc,                \* where the running call stands
    calls,             \* top-level calls made so far
    job,               \* the arguments of the running or last top-level call
    temp_dir,          \* the TemporaryDirectory of translate_novel
    nv,                \* the locals of translate_novel
    tc,                \* the locals of translate_chapter
    tsc,               \* the locals of translate_and_save_chapter
    novel_ret,         \* how the last translate_novel ended
    chapter_ret,       \* how the last direct translate_chapter ended
    fn_call            \* a call of a pure function and its result

vars == <<env, novel_glossary, chapter_glossary, permanent_zip, pc, calls, job,
          temp_dir, nv, tc, tsc, novel_ret, chapter_ret, fn_call>>

\* The target languages of the direct calls and of the jobs.
Targets == {"es", "fr"}
JobTargets == {"es"}

NoJob == [kind |-> "none", source |-> "none", target_lang |-> "none"]
NoFile == [exists |-> FALSE, path |-> <<>>, data |-> <<>>]
NoStep == [kind |-> "none", chunk |-> <<>>, known |-> None, translated |-> <<>>,
           glossary_before |-> NewGlossary]
\* samples is the record of what the sampling loop saw, one entry for each
\* sample taken; it is dropped when translate_novel acts on the result.
NoNv == [chapter_files |-> <<>>, k |-> 0, language_counts |-> <<>>,
         samples |-> <<>>,
         source_lang |-> "none", branch |-> "none", i |-> 0,
         failed_chapters |-> <<>>, attempted |-> <<>>, results |-> <<>>,
         novel_glossary_at_start |-> NewGlossary,
         chapter_glossary_at_start |-> NewGlossary]
NoTc == [caller |-> "none", file |-> NoFile, target_lang |-> "none",
         source_lang |-> "none", model_session |-> "None", chunked |-> FALSE,
         chunks |-> <<>>, j |-> 0, translated_chunks |-> <<>>,
         backend_calls |-> 0, glossary_at_entry |-> NewGlossary,
         step |-> NoStep, raised |-> FALSE, result |-> None]
NoTsc == [input_path |-> <<>>, output_path |-> <<>>, called |-> FALSE,
          status |-> FALSE, chapter_raised |-> FALSE, write_raised |-> FALSE]
NoRet == [raised |-> FALSE, text |-> None]
NoArchive == [exists |-> FALSE, files |-> EmptyMap]
NoCall == [fn |-> "none"]

\* A fresh process: both module-level glossaries are empty Glossary() objects.
InitProcess ==
    /\ env \in Environments
    /\ novel_glossary = NewGlossary
    /\ chapter_glossary = NewGlossary
    /\ permanent_zip = NoArchive
    /\ pc = "idle"
    /\ calls = 0
    /\ job = NoJob
    /\ temp_dir = NoTempDir
    /\ nv = NoNv
    /\ tc = NoTc
    /\ tsc = NoTsc
    /\ novel_ret = "none"
    /\ chapter_ret = NoRet

Init == InitProcess /\ fn_call = NoCall

\* ------------------------------------------------ translate_novel, the job
\* The except clause of translate_novel re-raises, and the exception leaves the
\* `with` block on its way out.
RaiseNovel ==
    /\ novel_ret' = "raised"
    /\ temp_dir' = ExitTemporaryDirectory(temp_dir)
    /\ pc' = "idle"

\* translate_novel(zip_path, target_lang) is called on one of the archives:
\* the temporary directory and its two trees are created.
StartNovelOn(archives) ==
    /\ pc = "idle"
    /\ calls < MaxCalls
    /\ \E zip_path \in archives, target_lang \in JobTargets :
         job' = [kind |-> "novel", source |-> zip_path, target_lang |-> target_lang]
    /\ calls' = calls + 1
    /\ temp_dir' = [exists |-> TRUE, extracted |-> EmptyMap, translated |-> EmptyMap]
    /\ nv' = [NoNv EXCEPT !.novel_glossary_at_start = novel_glossary,
                          !.chapter_glossary_at_start = chapter_glossary]
    /\ tc' = NoTc
    /\ tsc' = NoTsc
    /\ novel_ret' = "running"
    /\ chapter_ret' = NoRet
    /\ pc' = "extract"
    /\ UNCHANGED <<env, novel_glossary, chapter_glossary, permanent_zip, fn_call>>

StartNovel == StartNovelOn(Zips)

\* extract_zip(zip_path, extract_dir)
ExtractZip ==
    /\ pc = "extract"
    /\ IF ~Archive(job.source).exists \/ ~Archive(job.source).valid
       THEN RaiseNovel
       ELSE /\ temp_dir' = [temp_dir EXCEPT !.extracted = extract_zip(job.source)]
            /\ pc' = "discover"
            /\ UNCHANGED novel_ret
    /\ UNCHANGED <<env, novel_glossary, chapter_glossary, permanent_zip, calls,
                   job, nv, tc, tsc, chapter_ret, fn_call>>

\* chapter_files = get_chapter_files(extract_dir), and the check for none.
GetChapterFiles ==
    /\ pc = "discover"
    /\ \E chapter_files \in get_chapter_files(temp_dir.extracted) :
         IF NoChapters(chapter_files)
         THEN RaiseNovel /\ UNCHANGED nv
         ELSE /\ nv' = [nv EXCEPT !.chapter_files = chapter_files]
              /\ pc' = "analyze"
              /\ UNCHANGED <<novel_ret, temp_dir>>
    /\ UNCHANGED <<env, novel_glossary, chapter_glossary, permanent_zip, calls,
                   job, tc, tsc, chapter_ret, fn_call>>

\* One pass of the sampling loop of analyze_novel_languages: a sample whose
\* read or detection raises is skipped.
AnalyzeSample ==
    /\ pc = "analyze"
    /\ nv.k < sample_size(nv.chapter_files)
    /\ \E io \in IOOutcomes, outcome \in DetectorOutcomes :
         LET file == nv.chapter_files[nv.k + 1]
             r == read_text([exists |-> TRUE, path |-> file.path,
                             data |-> temp_dir.extracted[file.path]], io)
             d == detect_language(Prefix(r.text, DetectWindow), env.langdetect, outcome)
         IN nv' = [nv EXCEPT
                     !.k = nv.k + 1,
                     !.samples = Append(nv.samples,
                         [path |-> file.path,
                          lang |-> IF r.raised \/ d.raised THEN "failed" ELSE d.lang]),
                     !.language_counts =
                         IF r.raised \/ d.raised THEN nv.language_counts
                         ELSE CountLanguage(nv.language_counts, d.lang)]
    /\ UNCHANGED <<env, novel_glossary, chapter_glossary, permanent_zip, pc, calls,
                   job, temp_dir, tc, tsc, novel_ret, chapter_ret, fn_call>>

\* analyze_novel_languages returns, and translate_novel compares the result
\* with the target language.
FinishAnalysis ==
    /\ pc = "analyze"
    /\ nv.k = sample_size(nv.chapter_files)
    /\ LET source_lang == most_common_lang(nv.language_counts) IN
       nv' = [nv EXCEPT !.source_lang = source_lang,
                        !.k = 0,
                        !.language_counts = <<>>,
                        !.branch = IF source_lang = job.target_lang
                                   THEN "copy" ELSE "translate"]
    /\ pc' = "branch"
    /\ UNCHANGED <<env, novel_glossary, chapter_glossary, permanent_zip, calls,
                   job, temp_dir, tc, tsc, novel_ret, chapter_ret, fn_call>>

\* A copy that takes the chapter files and leaves the rest behind.
CopyChapters(extracted) ==
    [p \in {x \in DOMAIN extracted : IsChapterName(FileName(x))} |-> extracted[p]]

\* shutil.copytree(extract_dir, output_dir, dirs_exist_ok=True) into the empty
\* output tree: every file, at the same relative path.
copytree(extracted) == [p \in DOMAIN extracted |-> extracted[p]]

\* The same-language branch of translate_novel.
CopyTree ==
    /\ pc = "branch"
    /\ nv.branch = "copy"
    /\ temp_dir' = [temp_dir EXCEPT !.translated = copytree(temp_dir.extracted)]
    /\ nv' = [nv EXCEPT !.samples = <<>>]
    /\ pc' = "archive"
    /\ UNCHANGED <<env, novel_glossary, chapter_glossary, permanent_zip, calls,
                   job, tc, tsc, novel_ret, chapter_ret, fn_call>>

\* build_novel_glossary(chapter_files, source_lang), then failed_chapters = [].
BuildNovelGlossary ==
    /\ pc = "branch"
    /\ nv.branch = "translate"
    /\ novel_glossary' =
           build_novel_glossary(novel_glossary, temp_dir.extracted, nv.chapter_files)
    /\ nv' = [nv EXCEPT !.i = 1, !.samples = <<>>]
    /\ pc' = "loop"
    /\ UNCHANGED <<env, chapter_glossary, permanent_zip, calls, job, temp_dir,
                   tc, tsc, novel_ret, chapter_ret, fn_call>>

\* ----------------------------------------------- translate_chapter, a call
\* The frame of translate_chapter as it is entered.
EnterChapter(caller, file, target_lang) ==
    [NoTc EXCEPT !.caller = caller, !.file = file, !.target_lang = target_lang,
                 !.glossary_at_entry = chapter_glossary]

\* One pass of the chapter loop of translate_novel up to the call of
\* translate_and_save_chapter(file_path, output_path, target_lang).
NextChapter ==
    /\ pc = "loop"
    /\ nv.i <= Len(nv.chapter_files)
    /\ LET path == nv.chapter_files[nv.i].path IN
       /\ tc' = EnterChapter("job", [exists |-> TRUE, path |-> path,
                                     data |-> temp_dir.extracted[path]],
                             job.target_lang)
       /\ tsc' = [NoTsc EXCEPT !.input_path = path, !.output_path = path,
                               !.called = TRUE]
       /\ nv' = [nv EXCEPT !.attempted = Append(nv.attempted, path)]
    /\ pc' = "tc_read"
    /\ UNCHANGED <<env, novel_glossary, chapter_glossary, permanent_zip, calls,
                   job, temp_dir, novel_ret, chapter_ret, fn_call>>

\* translate_chapter(file_path, target_lang) is called directly, as the
\* chapter endpoint does.
StartChapter ==
    /\ pc = "idle"
    /\ calls < MaxCalls
    /\ \E source \in ChapterSources, target_lang \in Targets :
         /\ job' = [kind |-> "chapter", source |-> source, target_lang |-> target_lang]
         /\ tc' = EnterChapter("direct",
                               [exists |-> source # Missing,
                                path |-> <<"chapter.txt">>, data |-> source],
                               target_lang)
    /\ calls' = calls + 1
    /\ nv' = NoNv
    /\ tsc' = NoTsc
    /\ novel_ret' = "none"
    /\ chapter_ret' = NoRet
    /\ pc' = "tc_read"
    /\ UNCHANGED <<env, novel_glossary, chapter_glossary, permanent_zip,
                   temp_dir, fn_call>>

\* A pipeline without the same-language shortcut.
NeverSameLanguage(source_lang, target_lang) == FALSE

\* A shortcut that is also taken for every English chapter, whatever the target.
EnglishIsNeverTranslated(source_lang, target_lang) ==
    source_lang = target_lang \/ source_lang = "en"

\* if source_lang == target_lang
SameLanguage(source_lang, target_lang) == source_lang = target_lang

\* translate_chapter from its first line to the chunk loop: the read, the
\* empty-chapter return, the detection, the same-language return, the model
\* load and the chunking.
ReadChapter ==
    /\ pc = "tc_read"
    /\ \E io \in IOOutcomes, outcome \in DetectorOutcomes :
         LET r == read_text(tc.file, io)
             d == detect_language(r.text, env.langdetect, outcome)
         IN IF r.raised
            THEN tc' = [tc EXCEPT !.raised = TRUE] /\ pc' = "tc_done"
            ELSE IF Strip(r.text) = <<>>
            THEN tc' = [tc EXCEPT !.result = <<>>] /\ pc' = "tc_done"
            ELSE IF d.raised
            THEN tc' = [tc EXCEPT !.raised = TRUE] /\ pc' = "tc_done"
            ELSE IF SameLanguage(d.lang, tc.target_lang)
            THEN /\ tc' = [tc EXCEPT !.source_lang = d.lang, !.result = r.text]
                 /\ pc' = "tc_done"
            ELSE /\ tc' = [tc EXCEPT
                            !.source_lang = d.lang,
                            !.model_session =
                                load_translation_model(d.lang, tc.target_lang, env),
                            !.chunked = TRUE,
                            !.chunks = split_text_into_chunks(r.text, max_chunk_size),
                            !.j = 1]
                 /\ pc' = "tc_chunk"
    /\ UNCHANGED <<env, novel_glossary, chapter_glossary, permanent_zip, calls,
                   job, temp_dir, nv, tsc, novel_ret, chapter_ret, fn_call>>

\* glossary_translation = chapter_glossary.get_translation(chunk)
LookupChunk(g, chunk) == get_translation(g, chunk)

\* A loop that forgets to commit what the backend returned.
SkipCommit(g, chunk, translated_chunk) == g

\* chapter_glossary.add_term(chunk, translated_chunk)
CommitChunk(g, chunk, translated_chunk) == add_term(g, chunk, translated_chunk, None)

\* One pass of the chunk loop: the glossary lookup, on a miss the backend and
\* the commit, then the tone pass and the append.
TranslateChunk ==
    /\ pc = "tc_chunk"
    /\ tc.j <= Len(tc.chunks)
    /\ LET chunk == tc.chunks[tc.j]
           glossary_translation == LookupChunk(chapter_glossary, chunk)
           hit == Truthy(glossary_translation)
       IN \E outcome \in (IF hit \/ tc.model_session = "None" THEN {"text"} ELSE RunOutcomes) :
            LET translated_chunk ==
                    IF hit THEN glossary_translation
                    ELSE translate_text_chunk(chunk, tc.model_session, outcome,
                                              tc.source_lang, tc.target_lang).text
            IN /\ chapter_glossary' =
                       IF hit THEN chapter_glossary
                       ELSE CommitChunk(chapter_glossary, chunk, translated_chunk)
               /\ \E toned \in apply_emotion(translated_chunk, env) :
                    tc' = [tc EXCEPT
                             !.j = tc.j + 1,
                             !.translated_chunks = Append(tc.translated_chunks, toned),
                             !.backend_calls = tc.backend_calls + (IF hit THEN 0 ELSE 1),
                             !.step = [kind |-> IF hit THEN "hit" ELSE "miss",
                                       chunk |-> chunk,
                                       known |-> glossary_translation,
                                       translated |-> translated_chunk,
                                       glossary_before |-> chapter_glossary]]
    /\ UNCHANGED <<env, novel_glossary, permanent_zip, pc, calls, job, temp_dir,
                   nv, tsc, novel_ret, chapter_ret, fn_call>>

\* full_translated_text = " ".join(translated_chunks)
JoinChunks ==
    /\ pc = "tc_chunk"
    /\ tc.j > Len(tc.chunks)
    /\ tc' = [tc EXCEPT !.result = Join(tc.translated_chunks, <<Ch(" ")>>)]
    /\ pc' = "tc_done"
    /\ UNCHANGED <<env, novel_glossary, chapter_glossary, permanent_zip, calls,
                   job, temp_dir, nv, tsc, novel_ret, chapter_ret, fn_call>>

\* A direct call ends: the text is returned or the exception reaches the caller.
ReturnChapter ==
    /\ pc = "tc_done"
    /\ tc.caller = "direct"
    /\ chapter_ret' = [raised |-> tc.raised, text |-> tc.result]
    /\ tc' = NoTc
    /\ pc' = "idle"
    /\ UNCHANGED <<env, novel_glossary, chapter_glossary, permanent_zip, calls,
                   job, temp_dir, nv, tsc, novel_ret, fn_call>>

\* --------------------------------------- translate_and_save_chapter, a call
\* A wrapper that reports success whatever happened.
AlwaysSaved(chapter_raised, write_raised) == TRUE

\* What translate_and_save_chapter returns: True when neither translate_chapter
\* nor write_text raised.
SaveResult(chapter_raised, write_raised) == ~chapter_raised /\ ~write_raised

\* The rest of translate_and_save_chapter once translate_chapter has returned
\* or raised: write_text(output_path, translated_text) and the return value.
SaveChapter ==
    /\ pc = "tc_done"
    /\ tc.caller = "job"
    /\ \E io \in (IF tc.raised THEN {"ok"} ELSE IOOutcomes) :
         LET write_raised == ~tc.raised /\ io # "ok" IN
         /\ tsc' = [tsc EXCEPT !.chapter_raised = tc.raised,
                               !.write_raised = write_raised,
                               !.status = SaveResult(tc.raised, write_raised)]
         /\ temp_dir' = IF ~tc.raised /\ ~write_raised
                        THEN [temp_dir EXCEPT !.translated =
                                 Put(temp_dir.translated, tsc.output_path, tc.result)]
                        ELSE temp_dir
    /\ pc' = "tsc_done"
    /\ UNCHANGED <<env, novel_glossary, chapter_glossary, permanent_zip, calls,
                   job, nv, tc, novel_ret, chapter_ret, fn_call>>

\* The rest of the pass of the chapter loop: on False the file name joins
\* failed_chapters and shutil.copy2(file_path, output_path) runs, unguarded.
HandleChapterResult ==
    /\ pc = "tsc_done"
    /\ LET path == tsc.input_path
           result == [path |-> path, source_lang |-> tc.source_lang,
                      write_raised |-> tsc.write_raised, success |-> tsc.status]
       IN IF tsc.status
          THEN /\ nv' = [nv EXCEPT !.i = nv.i + 1,
                                   !.results = Append(nv.results, result)]
               /\ pc' = "loop"
               /\ UNCHANGED <<temp_dir, novel_ret>>
          ELSE \E io \in IOOutcomes :
                 /\ nv' = [nv EXCEPT
                             !.i = nv.i + 1,
                             !.results = Append(nv.results, result),
                             !.failed_chapters =
                                 Append(nv.failed_chapters, FileName(path))]
                 /\ IF io = "ok"
                    THEN /\ temp_dir' = [temp_dir EXCEPT !.translated =
                               Put(temp_dir.translated, tsc.output_path,
                                   temp_dir.extracted[path])]
                         /\ pc' = "loop"
                         /\ UNCHANGED novel_ret
                    ELSE RaiseNovel
    /\ tc' = NoTc
    /\ UNCHANGED <<env, novel_glossary, chapter_glossary, permanent_zip, calls,
                   job, tsc, chapter_ret, fn_call>>

\* create_zip(output_dir, ...), shutil.move to the permanent path, the return,
\* and the exit from the `with` block.
CreateArchive ==
    /\ \/ pc = "archive"
       \/ pc = "loop" /\ nv.i > Len(nv.chapter_files)
    /\ permanent_zip' = [exists |-> TRUE, files |-> temp_dir.translated]
    /\ novel_ret' = "returned"
    /\ temp_dir' = ExitTemporaryDirectory(temp_dir)
    /\ pc' = "idle"
    /\ UNCHANGED <<env, novel_glossary, chapter_glossary, calls, job, nv, tc, tsc,
                   chapter_ret, fn_call>>

Next ==
    \/ StartNovel
    \/ ExtractZip
    \/ GetChapterFiles
    \/ AnalyzeSample
    \/ FinishAnalysis
    \/ CopyTree
    \/ BuildNovelGlossary
    \/ NextChapter
    \/ ReadChapter
    \/ TranslateChunk
    \/ JoinChunks
    \/ SaveChapter
    \/ HandleChapterResult
    \/ CreateArchive
    \/ StartChapter
    \/ ReturnChapter

Spec == Init /\ [][Next]_vars

\* ------------------------------------------------- the functions on their own
\* The tokens the enumerated texts are made of.
Alphabet == {Ch(" "), Ch("a"), Hello, Alice, XRun(999), Ch("CJK"), Ch("HIRA")}

\* Every text of at most k tokens.
RECURSIVE TextsUpTo(_)
TextsUpTo(k) ==
    IF k = 0 THEN {<<>>}
    ELSE LET shorter == TextsUpTo(k - 1)
         IN shorter \cup {Append(t, c) : t \in shorter, c \in Alphabet}

Texts == TextsUpTo(MaxTextLen)

NoResult == [raised |-> FALSE, value |-> None]

\* A process in which one function is about to be called on one input.
InitPure ==
    /\ InitProcess
    /\ \E text \in Texts, source_lang \in {"en", "es"}, target_lang \in Langs :
         \/ fn_call = [fn |-> "detect_language", text |-> text,
                       source_lang |-> "none", target_lang |-> "none",
                       model_session |-> "None", outcome |-> "none",
                       done |-> FALSE, result |-> NoResult]
         \/ fn_call = [fn |-> "translate_text_chunk", text |-> text,
                       source_lang |-> source_lang, target_lang |-> target_lang,
                       model_session |->
                           load_translation_model(source_lang, target_lang, env),
                       outcome |-> "none", done |-> FALSE, result |-> NoResult]

\* detect_language(text)
CallDetectLanguage ==
    /\ fn_call.fn = "detect_language"
    /\ ~fn_call.done
    /\ \E outcome \in DetectorOutcomes :
         LET d == detect_language(fn_call.text, env.langdetect, outcome) IN
         fn_call' = [fn_call EXCEPT
                       !.outcome = outcome, !.done = TRUE,
                       !.result = [raised |-> d.raised, value |-> d.lang]]
    /\ UNCHANGED <<env, novel_glossary, chapter_glossary, permanent_zip, pc, calls,
                   job, temp_dir, nv, tc, tsc, novel_ret, chapter_ret>>

\* translate_text_chunk(text_chunk, model_session, source_lang, target_lang)
CallTranslateTextChunk ==
    /\ fn_call.fn = "translate_text_chunk"
    /\ ~fn_call.done
    /\ \E outcome \in RunOutcomes :
         LET r == translate_text_chunk(fn_call.text, fn_call.model_session, outcome,
                                       fn_call.source_lang, fn_call.target_lang) IN
         fn_call' = [fn_call EXCEPT
                       !.outcome = outcome, !.done = TRUE,
                       !.result = [raised |-> r.raised, value |-> r.text]]
    /\ UNCHANGED <<env, novel_glossary, chapter_glossary, permanent_zip, pc, calls,
                   job, temp_dir, nv, tc, tsc, novel_ret, chapter_ret>>

NextPure == CallDetectLanguage \/ CallTranslateTextChunk

SpecPure == InitPure /\ [][NextPure]_vars

\* ------------------------------------------------------------- the claims
\* A translate_novel call has ended and control is back with its caller.
JobEnded == pc = "idle" /\ job.kind = "novel" /\ novel_ret \in {"returned", "raised"}

\* The chapter members of an archive, by name.
ChapterPaths(zip_path) ==
    {p \in DOMAIN extract_zip(zip_path) : IsChapterName(FileName(p))}

\* C1: in a job whose inferred source language differs from the target, a
\* chapter for which translate_and_save_chapter returns false never aborts the
\* batch: the call returns the archive, every chapter file was processed, and
\* each failed chapter is in the failure list with its original text in the
\* output.
C1_FailureIsolation ==
    (JobEnded /\ nv.branch = "translate") =>
        /\ novel_ret = "returned"
        /\ SeqToSet(nv.attempted) = ChapterPaths(job.source)
        /\ \A i \in 1..Len(nv.results) :
             ~nv.results[i].success =>
                 /\ InList(FileName(nv.results[i].path), nv.failed_chapters)
                 /\ nv.results[i].path \in DOMAIN permanent_zip.files
                 /\ permanent_zip.files[nv.results[i].path] =
                        extract_zip(job.source)[nv.results[i].path]

\* C2: whenever control is back with the caller of translate_novel, by return
\* or by exception, the temporary directory with its extraction tree and its
\* output tree is gone.
C2_TempReleased ==
    pc = "idle" => (~temp_dir.exists /\ temp_dir.extracted = EmptyMap
                                    /\ temp_dir.translated = EmptyMap)

\* A job raised after a chapter had failed and files had been written.
C2_Witness ==
    /\ JobEnded
    /\ novel_ret = "raised"
    /\ Len(nv.results) = 2
    /\ nv.results[1].success
    /\ ~temp_dir.exists

\* The archive is missing, is corrupt, or holds no .txt/.text member.
FatalArchive(zip_path) ==
    \/ ~Archive(zip_path).exists
    \/ ~Archive(zip_path).valid
    \/ \A i \in 1..Len(Archive(zip_path).members) :
         ~IsChapterName(FileName(Archive(zip_path).members[i].path))

\* C3: for a missing archive, a corrupt archive and an archive without chapter
\* files, translate_novel never returns a path, ends by raising, and hands no
\* file to translate_and_save_chapter.
C3_FatalArchives ==
    (job.kind = "novel" /\ FatalArchive(job.source)) =>
        /\ novel_ret # "returned"
        /\ (pc = "idle" => novel_ret = "raised")
        /\ nv.attempted = <<>>
        /\ tc = NoTc
        /\ ~tsc.called
        /\ chapter_glossary = nv.chapter_glossary_at_start

\* The job on the archive of pictures raised at the check for no chapters.
C3_Witness ==
    /\ JobEnded
    /\ job.source = "pictures.zip"
    /\ novel_ret = "raised"
    /\ nv.attempted = <<>>

\* C4: every job starts with a glossary that holds no term, and what the
\* pre-seeding leaves in it (terms and usage counts) is a function of the
\* job's own files.
C4_FreshGlossary ==
    /\ (job.kind = "novel" /\ pc = "extract") => novel_glossary.terms = EmptyMap
    /\ (job.kind = "novel" /\ pc = "loop") =>
           novel_glossary = AddPlaceholders(NewGlossary,
               common_terms(temp_dir.extracted, nv.chapter_files))

\* C5: detect_language never raises, and for a text that is not blank, when
\* the detector cannot be imported, raises its LangDetectException or raises
\* anything else, the result is fallback_language_detection of the first 1000
\* characters of the stripped text.
C5_DetectNeverRaises ==
    (fn_call.fn = "detect_language" /\ fn_call.done /\ Strip(fn_call.text) # <<>>) =>
        /\ ~fn_call.result.raised
        /\ (~env.langdetect \/ fn_call.outcome \in {"LangDetectException", "Exception"}) =>
               fn_call.result.value =
                   fallback_language_detection(Prefix(Strip(fn_call.text), DetectWindow))

\* C6: translate_text_chunk never raises, and without a model session, or
\* when the model invocation raises, it returns "[" + the upper-cased target
\* code + "] " + the chunk it was given.
C6_PlaceholderOnFailure ==
    (fn_call.fn = "translate_text_chunk" /\ fn_call.done) =>
        /\ ~fn_call.result.raised
        /\ (fn_call.model_session = "None" \/ fn_call.outcome = "raises") =>
               fn_call.result.value =
                   <<UpperTag(fn_call.target_lang), Ch(" ")>> \o fn_call.text

\* A loaded model raised on a chunk and the French placeholder came back.
C6_Witness ==
    /\ fn_call.fn = "translate_text_chunk"
    /\ fn_call.done
    /\ fn_call.model_session # "None"
    /\ fn_call.outcome = "raises"
    /\ fn_call.text = <<Hello, Ch(" "), Alice>>
    /\ fn_call.result = [raised |-> FALSE,
                         value |-> <<Word("[FR]", 4), Ch(" "), Hello, Ch(" "), Alice>>]

\* C7: translate_and_save_chapter hands no exception to the job; when it
\* returns true the output location holds the text translate_chapter returned,
\* and when translate_chapter or the write raised it returns false.
C7_SaveNeverPropagates ==
    pc = "tsc_done" =>
        /\ novel_ret = "running"
        /\ tsc.status =>
               /\ ~tc.raised
               /\ tsc.output_path \in DOMAIN temp_dir.translated
               /\ temp_dir.translated[tsc.output_path] = tc.result
        /\ (tc.raised \/ tsc.write_raised) => ~tsc.status

\* The write of a translated chapter raised and false came back.
C7_Witness ==
    /\ pc = "tsc_done"
    /\ tc.chunked
    /\ ~tc.raised
    /\ tsc.write_raised
    /\ ~tsc.status
    /\ tsc.output_path \notin DOMAIN temp_dir.translated

\* C8: when translate_chapter detects the target language as the source
\* language it returns the text it read, the chapter glossary is what it was
\* when the call began, and neither the chunker nor the backend ran.
C8_SameLanguageUnchanged ==
    (pc = "tc_done" /\ ~tc.raised /\ tc.source_lang = tc.target_lang) =>
        /\ tc.result = tc.file.data
        /\ chapter_glossary = tc.glossary_at_entry
        /\ ~tc.chunked
        /\ tc.chunks = <<>>
        /\ tc.backend_calls = 0

\* A Spanish-detected chapter went through with a glossary that already held
\* a translation of its only chunk.
C8_Witness ==
    /\ pc = "tc_done"
    /\ tc.source_lang = "es"
    /\ tc.target_lang = "es"
    /\ tc.file.data = HelloWorld
    /\ tc.result = HelloWorld
    /\ has_term(chapter_glossary, split_text_into_chunks(HelloWorld, max_chunk_size)[1])

\* The glossary holds a translation of the chunk that is not blank.
HoldsTranslation(g, chunk) ==
    chunk \in DOMAIN g.terms /\ Strip(g.terms[chunk]) # <<>>

\* The chunks among the first k of the running call that its glossary did not
\* hold a translation of when the call began.
NewChunks(k) ==
    {tc.chunks[i] : i \in 1..k} \ {c \in SeqToSet(tc.chunks) :
                                      HoldsTranslation(tc.glossary_at_entry, c)}

\* C9, as stated: a chunk the glossary holds a non-empty translation of is
\* answered from the glossary, with no backend call and the glossary left as
\* it was; any other chunk costs one backend call, and the glossary then maps
\* the chunk to the very text the backend returned.
C9_CommitsBackendResult ==
    (pc \in {"tc_chunk", "tc_done"} /\ tc.step.kind # "none") =>
        LET st == tc.step IN
        /\ st.chunk = tc.chunks[tc.j - 1]
        /\ tc.backend_calls = Cardinality(NewChunks(tc.j - 1))
        /\ HoldsTranslation(st.glossary_before, st.chunk) =>
               /\ st.kind = "hit"
               /\ st.translated = st.glossary_before.terms[st.chunk]
               /\ chapter_glossary = st.glossary_before
        /\ ~HoldsTranslation(st.glossary_before, st.chunk) =>
               /\ st.kind = "miss"
               /\ chapter_glossary.terms =
                      Put(st.glossary_before.terms, st.chunk, st.translated)

\* C9, amended: as above, but what a miss commits is the backend's text with
\* the whitespace at its ends removed, and the chunk's usage count goes up by
\* one, before the next chunk is looked up.
C9_CommitsStrippedResult ==
    (pc \in {"tc_chunk", "tc_done"} /\ tc.step.kind # "none") =>
        LET st == tc.step IN
        /\ st.chunk = tc.chunks[tc.j - 1]
        /\ tc.backend_calls = Cardinality(NewChunks(tc.j - 1))
        /\ HoldsTranslation(st.glossary_before, st.chunk) =>
               /\ st.kind = "hit"
               /\ st.translated = st.glossary_before.terms[st.chunk]
               /\ chapter_glossary = st.glossary_before
        /\ ~HoldsTranslation(st.glossary_before, st.chunk) =>
               /\ st.kind = "miss"
               /\ chapter_glossary.terms =
                      Put(st.glossary_before.terms, st.chunk, Strip(st.translated))
               /\ chapter_glossary.usage_count =
                      Put(st.glossary_before.usage_count, st.chunk,
                          Get(st.glossary_before.usage_count, st.chunk, 0) + 1)
               /\ chapter_glossary.context = st.glossary_before.context

\* The second of two equal chunks was answered from the glossary, one backend
\* call after two chunks, and the answer is the stripped form of the text the
\* backend gave for the first.
C9_Witness ==
    /\ pc = "tc_chunk"
    /\ tc.file.data = LongText
    /\ tc.j = 3
    /\ tc.chunks[1] = tc.chunks[2]
    /\ tc.step.kind = "hit"
    /\ tc.backend_calls = 1
    /\ tc.translated_chunks[1] = tc.translated_chunks[2] \o <<Ch("\n")>>

\* A job from English that returned, in an environment without models, in
\* which every chapter was detected as English and every write succeeded.
EnglishMockJob ==
    /\ pc = "idle"
    /\ job.kind = "novel"
    /\ novel_ret = "returned"
    /\ nv.branch = "translate"
    /\ nv.source_lang = "en"
    /\ env.models = {}
    /\ \A i \in 1..Len(nv.results) :
         nv.results[i].source_lang = "en" /\ ~nv.results[i].write_raised

\* "[TARGET] " + chunk
Placeholder(chunk, target_lang) == <<UpperTag(target_lang), Ch(" ")>> \o chunk

\* The text of a chapter as the job writes it: per chunk the translation the
\* chapter glossary held when the job began, else the placeholder, after the
\* tone pass, joined by single spaces.
ExpectedChapter(text, target_lang, g) ==
    LET chunks == split_text_into_chunks(text, max_chunk_size) IN
    Join([i \in 1..Len(chunks) |->
            LET unit == IF HoldsTranslation(g, chunks[i]) THEN g.terms[chunks[i]]
                        ELSE Placeholder(chunks[i], target_lang)
            IN IF /\ JoyCount(unit) > 0
                  /\ 10 * JoyCount(unit) > 6 * (JoyCount(unit) + AngerCount(unit))
               THEN [k \in 1..Len(unit) |->
                       IF unit[k] = amazing THEN AMAZING ELSE unit[k]]
               ELSE unit],
         <<Ch(" ")>>)

\* C10, as stated: such a job leaves one output file per input file, an empty
\* failure list, and in each file the placeholder-wrapped chunks of the input
\* joined by single spaces: "Hello. World." becomes "[ES] Hello. [ES] World.".
C10_PlaceholderPerSentence ==
    EnglishMockJob =>
        /\ nv.failed_chapters = <<>>
        /\ DOMAIN permanent_zip.files = DOMAIN extract_zip(job.source)
        /\ \A p \in ChapterPaths(job.source) :
             LET chunks == split_text_into_chunks(extract_zip(job.source)[p],
                                                  max_chunk_size)
             IN permanent_zip.files[p] =
                    Join([i \in 1..Len(chunks) |->
                            Placeholder(chunks[i], job.target_lang)], <<Ch(" ")>>)
        /\ job.source = "scenario.zip" =>
               permanent_zip.files[<<"01.txt">>] =
                   <<Word("[ES]", 4), Ch(" "), Hello, Ch("."), Ch(" "),
                     Word("[ES]", 4), Ch(" "), World, Ch(".")>>

\* C10, amended: such a job leaves an empty failure list and exactly one
\* output file per chapter file, at the same relative path, and no other member
\* of the input; each file holds the chunks of the 512-character chunker, each
\* replaced by the translation the chapter glossary held for it when the job
\* began or else by "[TARGET] " + chunk, after the tone pass, joined by single
\* spaces.
C10_PlaceholderPerChunk ==
    EnglishMockJob =>
        /\ nv.failed_chapters = <<>>
        /\ DOMAIN permanent_zip.files = ChapterPaths(job.source)
        /\ \A p \in ChapterPaths(job.source) :
             permanent_zip.files[p] =
                 ExpectedChapter(extract_zip(job.source)[p], job.target_lang,
                                 nv.chapter_glossary_at_start)

\* The scenario archive went through in a fresh process, and "Hello. World."
\* came out as one chunk with a doubled final period.
C10_Witness ==
    /\ EnglishMockJob
    /\ job.source = "scenario.zip"
    /\ job.target_lang = "es"
    /\ nv.chapter_glossary_at_start = NewGlossary
    /\ DOMAIN permanent_zip.files = {<<"01.txt">>, <<"02.txt">>}
    /\ permanent_zip.files[<<"01.txt">>] =
           <<Word("[ES]", 4), Ch(" "), Hello, Ch("."), Ch(" "), World, Ch("."), Ch(".")>>
    /\ permanent_zip.files[<<"02.txt">>] =
           <<Word("[ES]", 4), Ch(" "), Hello, Ch(" "), again, Ch("."), Ch(".")>>

\* ------------------------------------------- glossary.py, the rest of the API
\* remove_term(original): the glossary afterwards and the value returned.
remove_term(g, original) ==
    IF ~Truthy(original) \/ Strip(original) = <<>> THEN [g |-> g, result |-> FALSE]
    ELSE LET o == Strip(original) IN
         IF o \in DOMAIN g.terms
         THEN [g |-> [terms |-> Pop(g.terms, o),
                      usage_count |-> Pop(g.usage_count, o),
                      context |-> Pop(g.context, o)],
               result |-> TRUE]
         ELSE [g |-> g, result |-> FALSE]

\* clear()
clear(g) == NewGlossary

\* A merge that takes the larger of the two usage counts.
MaxCount(local, remote) == IF local >= remote THEN local ELSE remote

\* self._usage_count.get(original, 0) + other_glossary.get_usage_count(original)
AddCounts(local, remote) == local + remote

\* One pass of the loop of merge_glossary, for the term `original` of the other
\* glossary.
merge_term(g, other, original, prefer_existing) ==
    LET translated == other.terms[original] IN
    IF original \in DOMAIN g.terms
    THEN LET g1 == IF ~prefer_existing \/ ~Truthy(g.terms[original])
                   THEN add_term(g, original, translated, None)
                   ELSE g
         IN [g1 EXCEPT !.usage_count =
                Put(g1.usage_count, original,
                    AddCounts(Get(g1.usage_count, original, 0),
                              get_usage_count(other, original)))]
    ELSE LET g1 == add_term(g, original, translated, None)
         IN [g1 EXCEPT !.usage_count =
                Put(g1.usage_count, original, get_usage_count(other, original))]

\* The loop of merge_glossary over other_glossary.get_all_terms(), a copy taken
\* before the loop starts.
RECURSIVE MergeLoop(_, _, _, _)
MergeLoop(g, other, todo, prefer_existing) ==
    IF todo = {} THEN g
    ELSE LET original == CHOOSE k \in todo : TRUE
         IN MergeLoop(merge_term(g, other, original, prefer_existing), other,
                      todo \ {original}, prefer_existing)

merge_glossary(g, other, prefer_existing) ==
    MergeLoop(g, other, DOMAIN other.terms, prefer_existing)

\* --------------------------------------------- glossary.py, the JSON file
\* A JSON document as json.dump writes it and json.load reads it: a tree of
\* strings, numbers, arrays and objects; an object is the list of its members in
\* the order they were written.
JsonString(s) == [t |-> "string", v |-> s]
JsonNumber(n) == [t |-> "number", v |-> n]
JsonArray(items) == [t |-> "array", v |-> items]
JsonObject(members) == [t |-> "object", v |-> members]
\* Bytes that json.load rejects.
JsonMalformed == [t |-> "malformed", v |-> <<>>]

\* json.dump of one value of a map: a str, an int or a list of str.
DumpValue(value, kind) ==
    CASE kind = "str" -> JsonString(value)
      [] kind = "int" -> JsonNumber(value)
      [] kind = "list" -> JsonArray([i \in 1..Len(value) |-> JsonString(value[i])])

\* json.dump of a dict with str keys.
RECURSIVE DumpMembers(_, _, _)
DumpMembers(d, keys, kind) ==
    IF keys = {} THEN <<>>
    ELSE LET k == CHOOSE x \in keys : TRUE
         IN <<[key |-> k, value |-> DumpValue(d[k], kind)]>>
            \o DumpMembers(d, keys \ {k}, kind)

DumpDict(d, kind) == JsonObject(DumpMembers(d, DOMAIN d, kind))

\* json.load of a string, a number or an array of strings.
LoadValue(j) ==
    IF j.t = "array" THEN [i \in 1..Len(j.v) |-> j.v[i].v] ELSE j.v

\* json.load of an object whose values are not objects: a dict in which the
\* last member of a name wins.
LoadDict(j) ==
    [k \in {j.v[i].key : i \in 1..Len(j.v)} |->
        LET last == CHOOSE i \in 1..Len(j.v) :
                        /\ j.v[i].key = k
                        /\ \A n \in 1..Len(j.v) : j.v[n].key = k => n <= i
        IN LoadValue(j.v[last].value)]

\* glossary_data.get(name, {}) on the loaded top-level object.
GetMember(j, name) ==
    IF \E i \in 1..Len(j.v) : j.v[i].key = name
    THEN LET last == CHOOSE i \in 1..Len(j.v) :
                         /\ j.v[i].key = name
                         /\ \A n \in 1..Len(j.v) : j.v[n].key = name => n <= i
         IN LoadDict(j.v[last].value)
    ELSE EmptyMap

\* A path of the file system: whether a file is there, and its content.
NoGlossaryFile == [exists |-> FALSE, text |-> JsonMalformed]

SaveOutcomes == {"ok", "open_fails", "write_fails"}

\* A save that writes the terms and nothing else.
SaveTermsOnly(g, file, outcome) ==
    IF outcome = "ok"
    THEN [file |-> [exists |-> TRUE,
                    text |-> JsonObject(<<
                        [key |-> "terms", value |-> DumpDict(g.terms, "str")]>>)],
          result |-> TRUE]
    ELSE [file |-> file, result |-> FALSE]

\* save_to_file(file_path): the file afterwards and the value returned. A
\* failure of open leaves the path as it was, a failure while writing leaves a
\* truncated file.
save_to_file(g, file, outcome) ==
    CASE outcome = "ok" ->
            [file |-> [exists |-> TRUE,
                       text |-> JsonObject(<<
                           [key |-> "terms", value |-> DumpDict(g.terms, "str")],
                           [key |-> "usage_count",
                            value |-> DumpDict(g.usage_count, "int")],
                           [key |-> "context",
                            value |-> DumpDict(g.context, "list")]>>)],
             result |-> TRUE]
      [] outcome = "open_fails" -> [file |-> file, result |-> FALSE]
      [] outcome = "write_fails" ->
            [file |-> [exists |-> TRUE, text |-> JsonMalformed], result |-> FALSE]

\* A load that empties the glossary before it finds that the document is not an
\* object.
PartialLoad(g, file, outcome) ==
    IF ~file.exists \/ outcome # "ok" \/ file.text.t = "malformed"
    THEN [g |-> g, result |-> FALSE]
    ELSE IF file.text.t # "object"
    THEN [g |-> NewGlossary, result |-> FALSE]
    ELSE [g |-> [terms |-> GetMember(file.text, "terms"),
                 usage_count |-> GetMember(file.text, "usage_count"),
                 context |-> GetMember(file.text, "context")],
          result |-> TRUE]

\* load_from_file(file_path): the glossary afterwards and the value returned.
\* A document that is not an object fails at the first .get, before anything
\* is assigned.
load_from_file(g, file, outcome) ==
    IF ~file.exists \/ outcome # "ok" \/ file.text.t # "object"
    THEN [g |-> g, result |-> FALSE]
    ELSE [g |-> [terms |-> GetMember(file.text, "terms"),
                 usage_count |-> GetMember(file.text, "usage_count"),
                 context |-> GetMember(file.text, "context")],
          result |-> TRUE]

\* ------------------------------------------- the Glossary class on its own
\* Two Glossary objects and one file path, driven through the public methods.
\* fn_call holds the objects, the file, and the last call with the state it
\* started from.
MaxOps == 3
MaxContextOps == 6

PaddedHello == <<Ch(" "), Hello, Ch("\n")>>
PaddedWorld == <<World, Ch(" ")>>

\* Six different context sentences.
Contexts == {<<Hello>>, <<World>>, <<again>>, <<amazing>>, <<Alice>>, <<AMAZING>>}

\* The add_term calls made on each object.
AddTermCalls(fn) ==
    IF fn = "Glossary"
    THEN {[target |-> "self", original |-> o, translated |-> t, context |-> c] :
              o \in {<<Alice>>, PaddedHello, <<Ch(" ")>>, None},
              t \in {None, PaddedWorld, <<again>>},
              c \in {None, <<Hello>>}}
         \cup
         {[target |-> "other", original |-> <<Alice>>, translated |-> t,
           context |-> None] : t \in {None, <<World>>, <<again>>}}
    ELSE {[target |-> "self", original |-> <<Alice>>, translated |-> <<World>>,
           context |-> c] : c \in Contexts \cup {None}}
         \cup
         {[target |-> "other", original |-> <<Alice>>, translated |-> <<again>>,
           context |-> <<Hello>>]}

OpBudget(fn) == IF fn = "Glossary" THEN MaxOps ELSE MaxContextOps

NoOp == [name |-> "none", target |-> "none", original |-> None,
         translated |-> None, context |-> None, prefer_existing |-> TRUE,
         outcome |-> "none", result |-> TRUE,
         before |-> [self |-> NewGlossary, other |-> NewGlossary,
                     file |-> NoGlossaryFile]]

Snapshot == [self |-> fn_call.self, other |-> fn_call.other, file |-> fn_call.file]

\* What the file at the path was written from: the glossary of the last
\* save_to_file that returned true, as long as nothing else wrote the path.
NotSaved == [valid |-> FALSE, g |-> NewGlossary]

GlossaryObjects(fn) ==
    [fn |-> fn, self |-> NewGlossary, other |-> NewGlossary,
     file |-> NoGlossaryFile, saved |-> NotSaved, op |-> NoOp, ops |-> 0]

IsGlossaryRun == fn_call.fn \in {"Glossary", "Glossary.context"}

BareEnvironment == [langdetect |-> FALSE, onnxruntime |-> FALSE, models |-> {}]

InitGlossary ==
    /\ InitProcess
    /\ env = BareEnvironment
    /\ fn_call = GlossaryObjects("Glossary")

InitContext ==
    /\ InitProcess
    /\ env = BareEnvironment
    /\ fn_call = GlossaryObjects("Glossary.context")

ProcessUnchanged ==
    UNCHANGED <<env, novel_glossary, chapter_glossary, permanent_zip, pc, calls,
                job, temp_dir, nv, tc, tsc, novel_ret, chapter_ret>>

\* glossary.add_term(original, translated, context)
AddTerm ==
    /\ IsGlossaryRun
    /\ fn_call.ops < OpBudget(fn_call.fn)
    /\ \E call \in AddTermCalls(fn_call.fn) :
         fn_call' = [fn_call EXCEPT
             !.self = IF call.target = "self"
                      THEN add_term(@, call.original, call.translated, call.context)
                      ELSE @,
             !.other = IF call.target = "other"
                       THEN add_term(@, call.original, call.translated, call.context)
                       ELSE @,
             !.op = [NoOp EXCEPT !.name = "add_term", !.target = call.target,
                                 !.original = call.original,
                                 !.translated = call.translated,
                                 !.context = call.context,
                                 !.before = Snapshot],
             !.ops = @ + 1]
    /\ ProcessUnchanged

\* glossary.remove_term(original)
RemoveTerm ==
    /\ IsGlossaryRun
    /\ fn_call.ops < OpBudget(fn_call.fn)
    /\ \E original \in {<<Alice>>, PaddedHello, <<Ch(" ")>>} :
         LET r == remove_term(fn_call.self, original) IN
         fn_call' = [fn_call EXCEPT
             !.self = r.g,
             !.op = [NoOp EXCEPT !.name = "remove_term", !.target = "self",
                                 !.original = original, !.result = r.result,
                                 !.before = Snapshot],
             !.ops = @ + 1]
    /\ ProcessUnchanged

\* glossary.merge_glossary(other_glossary, prefer_existing)
MergeGlossary ==
    /\ IsGlossaryRun
    /\ fn_call.ops < OpBudget(fn_call.fn)
    /\ \E prefer_existing \in BOOLEAN :
         fn_call' = [fn_call EXCEPT
             !.self = merge_glossary(@, fn_call.other, prefer_existing),
             !.op = [NoOp EXCEPT !.name = "merge_glossary", !.target = "self",
                                 !.prefer_existing = prefer_existing,
                                 !.before = Snapshot],
             !.ops = @ + 1]
    /\ ProcessUnchanged

\* glossary.clear()
Clear ==
    /\ IsGlossaryRun
    /\ fn_call.ops < OpBudget(fn_call.fn)
    /\ fn_call' = [fn_call EXCEPT
           !.self = clear(@),
           !.op = [NoOp EXCEPT !.name = "clear", !.target = "self",
                               !.before = Snapshot],
           !.ops = @ + 1]
    /\ ProcessUnchanged

\* glossary.save_to_file(file_path)
SaveToFile ==
    /\ fn_call.fn = "Glossary"
    /\ fn_call.ops < MaxOps
    /\ \E outcome \in SaveOutcomes :
         LET r == save_to_file(fn_call.self, fn_call.file, outcome) IN
         fn_call' = [fn_call EXCEPT
             !.file = r.file,
             !.saved = IF r.result THEN [valid |-> TRUE, g |-> fn_call.self]
                       ELSE IF r.file = fn_call.file THEN @ ELSE NotSaved,
             !.op = [NoOp EXCEPT !.name = "save_to_file", !.target = "self",
                                 !.outcome = outcome, !.result = r.result,
                                 !.before = Snapshot],
             !.ops = @ + 1]
    /\ ProcessUnchanged

\* other_glossary.load_from_file(file_path)
LoadFromFile ==
    /\ fn_call.fn = "Glossary"
    /\ fn_call.ops < MaxOps
    /\ \E outcome \in IOOutcomes :
         LET r == load_from_file(fn_call.other, fn_call.file, outcome) IN
         fn_call' = [fn_call EXCEPT
             !.other = r.g,
             !.op = [NoOp EXCEPT !.name = "load_from_file", !.target = "other",
                                 !.outcome = outcome, !.result = r.result,
                                 !.before = Snapshot],
             !.ops = @ + 1]
    /\ ProcessUnchanged

\* Files that something other than save_to_file left at the path: bytes that are
\* not JSON, a JSON array, and an object that has only the terms.
ForeignFiles ==
    { JsonMalformed,
      JsonArray(<<JsonString(<<Alice>>)>>),
      JsonObject(<<[key |-> "terms",
                    value |-> JsonObject(<<[key |-> <<Hello>>,
                                            value |-> JsonString(<<Ch(" ")>>)]>>)]>>) }

\* Another program writes or deletes the file.
ForeignWrite ==
    /\ fn_call.fn = "Glossary"
    /\ fn_call.ops < MaxOps
    /\ \E file \in {[exists |-> TRUE, text |-> t] : t \in ForeignFiles}
                   \cup {NoGlossaryFile} :
         /\ file # fn_call.file
         /\ fn_call' = [fn_call EXCEPT !.file = file, !.saved = NotSaved]
    /\ ProcessUnchanged

NextGlossary ==
    \/ AddTerm \/ RemoveTerm \/ MergeGlossary \/ Clear
    \/ SaveToFile \/ LoadFromFile \/ ForeignWrite

SpecGlossary == InitGlossary /\ [][NextGlossary]_vars

NextContext == AddTerm \/ RemoveTerm \/ MergeGlossary \/ Clear

SpecContext == InitContext /\ [][NextContext]_vars

\* ------------------------------------------------------------------ C11
\* The object the last call acted on, before and after the call.
Before == fn_call.op.before[fn_call.op.target]
After == fn_call[fn_call.op.target]

LastCall(name) == IsGlossaryRun /\ fn_call.op.name = name

\* Two maps agree on every key but k.
SameExcept(f, g, k) ==
    /\ DOMAIN f \ {k} = DOMAIN g \ {k}
    /\ \A x \in DOMAIN f \ {k} : f[x] = g[x]

\* C11: add_term with a term that is not blank stores the trimmed translation
\* under the trimmed term, replacing what was there, and adds exactly one to
\* the usage count of that term, also when the translation is the one already
\* stored; it touches no other term. add_term with an empty or blank term
\* changes nothing.
C11_AddTermStoresAndCounts ==
    LastCall("add_term") =>
        LET o == fn_call.op.original
            t == fn_call.op.translated
        IN IF o = None \/ o = <<>> \/ \A i \in 1..Len(o) : IsSpace(o[i])
           THEN After = Before
           ELSE /\ Strip(o) \in DOMAIN After.terms
                /\ After.terms[Strip(o)] = (IF t = None THEN <<>> ELSE Strip(t))
                /\ t = PaddedWorld => After.terms[Strip(o)] = <<World>>
                /\ After.usage_count[Strip(o)] = Get(Before.usage_count, Strip(o), 0) + 1
                /\ SameExcept(After.terms, Before.terms, Strip(o))
                /\ SameExcept(After.usage_count, Before.usage_count, Strip(o))

\* The second of two identical add_term calls: the translation stays, the
\* count goes from 1 to 2.
C11_Witness ==
    /\ LastCall("add_term")
    /\ fn_call.op.target = "self"
    /\ fn_call.op.original = PaddedHello
    /\ fn_call.op.translated = PaddedWorld
    /\ <<Hello>> \in DOMAIN Before.terms
    /\ Before.terms[<<Hello>>] = <<World>>
    /\ Before.usage_count[<<Hello>>] = 1
    /\ After.terms[<<Hello>>] = <<World>>
    /\ After.usage_count[<<Hello>>] = 2

\* ------------------------------------------------------------------ C12
Context(g, term) == Get(g.context, term, <<>>)

\* The last call was add_term with a term that is not blank and a context.
AddedContext ==
    /\ LastCall("add_term")
    /\ fn_call.op.original # None
    /\ Strip(fn_call.op.original) # <<>>
    /\ fn_call.op.context # None
    /\ fn_call.op.context # <<>>

\* C12: add_term with a context leaves the history of the term alone when the
\* context equals its current last entry, and appends the context in every
\* other case, so a context equal to an older entry is appended again.
C12_AppendsUnlessLast ==
    AddedContext =>
        LET term == Strip(fn_call.op.original)
            old == Context(Before, term)
            new == Context(After, term)
            c == fn_call.op.context
        IN IF old # <<>> /\ old[Len(old)] = c
           THEN new = old
           ELSE new = LastN(Append(old, c), ContextLimit)

\* ------------------------------------------------------------------ C13
Glossaries == {fn_call.self, fn_call.other}

NoDuplicates(list) ==
    \A i, j \in 1..Len(list) : list[i] = list[j] => i = j

Blank(s) == \A i \in 1..Len(s) : IsSpace(s[i])

\* has_term and get_translation for every stored term of g, asked with the
\* stored key.
EmptyTranslationIsNotFound(g) ==
    \A term \in DOMAIN g.terms :
        /\ has_term(g, term)
        /\ Blank(g.terms[term]) => get_translation(g, term) = None
        /\ get_translation(g, term) # None =>
               /\ g.terms[term] # <<>>
               /\ get_translation(g, term) = g.terms[term]

\* C14: a term stored with an empty or blank translation is reported as
\* present by has_term and as not found by get_translation; get_translation
\* returns a value only for a stored translation that is not empty. This
\* holds for terms stored by add_term and merge_glossary and for terms read
\* from a file.
C14_EmptyTranslationNotFound ==
    IsGlossaryRun => \A g \in Glossaries : EmptyTranslationIsNotFound(g)

\* The same for the glossary of a job, whose terms build_novel_glossary stored
\* with an empty translation.
C14_PreSeededNotFound ==
    /\ EmptyTranslationIsNotFound(novel_glossary)
    /\ (pc = "loop" /\ nv.branch = "translate") =>
           \A term \in DOMAIN novel_glossary.terms :
               get_translation(novel_glossary, term) = None

\* A term stored by add_term without a translation, and a term read from a
\* file with a blank translation.
C14_Witness ==
    /\ IsGlossaryRun
    /\ <<Alice>> \in DOMAIN fn_call.self.terms
    /\ fn_call.self.terms[<<Alice>>] = <<>>
    /\ <<Hello>> \in DOMAIN fn_call.other.terms
    /\ fn_call.other.terms[<<Hello>>] = <<Ch(" ")>>

\* ------------------------------------------------------------------ C15
\* The last call was self.merge_glossary(other, prefer_existing).
Merged(prefer_existing) ==
    LastCall("merge_glossary") /\ fn_call.op.prefer_existing = prefer_existing

Local == fn_call.op.before.self
Remote == fn_call.op.before.other

C15_WitnessInserted ==
    /\ Merged(TRUE)
    /\ <<Alice>> \notin DOMAIN Local.terms
    /\ <<Alice>> \in DOMAIN Remote.terms
    /\ Remote.usage_count[<<Alice>>] = 2
    /\ fn_call.self.terms[<<Alice>>] = Remote.terms[<<Alice>>]
    /\ fn_call.self.usage_count[<<Alice>>] = 2

\* ------------------------------------------------------------------ C16
\* C16: after merge_glossary, whatever prefer_existing is and whether or not
\* the local translation is empty, the count of every term stored in both
\* glossaries is its local count before the merge plus the other's count.
C16_CountsAddInEveryBranch ==
    LastCall("merge_glossary") =>
        \A k \in DOMAIN Remote.terms \cap DOMAIN Local.terms :
            fn_call.self.usage_count[k] =
                Get(Local.usage_count, k, 0) + Get(Remote.usage_count, k, 0)

\* ------------------------------------------------------------------ C17
\* The names under which the document at the path stores entries in the
\* member `name`; none if the document has no such member.
FileKeys(file, name) ==
    UNION { {file.text.v[i].value.v[n].key : n \in 1..Len(file.text.v[i].value.v)} :
                i \in {x \in 1..Len(file.text.v) : file.text.v[x].key = name} }

\* C17: load_from_file returns true exactly for a file that exists, can be
\* read and holds a JSON object; then each of the three maps holds the entries
\* of the file's member of that name and nothing else, so no term held before
\* survives unless the file has it. When it returns false (no file, a read
\* error, bytes that are not JSON, a document that is not an object) the three
\* maps are exactly what they were.
C17_LoadReplacesOrKeeps ==
    LastCall("load_from_file") =>
        LET file == fn_call.op.before.file IN
        /\ fn_call.op.result =
               (file.exists /\ fn_call.op.outcome = "ok" /\ file.text.t = "object")
        /\ fn_call.op.result =>
               /\ DOMAIN After.terms = FileKeys(file, "terms")
               /\ DOMAIN After.usage_count = FileKeys(file, "usage_count")
               /\ DOMAIN After.context = FileKeys(file, "context")
               /\ After.terms = GetMember(file.text, "terms")
               /\ After.usage_count = GetMember(file.text, "usage_count")
               /\ After.context = GetMember(file.text, "context")
        /\ ~fn_call.op.result => After = Before

\* A glossary that held Alice loads a file that has only Hello.
C17_Witness ==
    /\ LastCall("load_from_file")
    /\ fn_call.op.result
    /\ <<Alice>> \in DOMAIN Before.terms
    /\ DOMAIN After.terms = {<<Hello>>}
    /\ After.usage_count = EmptyMap

\* A glossary that holds Alice fails to load a JSON array and keeps Alice.
C17_WitnessFailure ==
    /\ LastCall("load_from_file")
    /\ ~fn_call.op.result
    /\ fn_call.op.before.file.exists
    /\ fn_call.op.before.file.text.t = "array"
    /\ <<Alice>> \in DOMAIN After.terms

\* ------------------------------------------------------------------ C18
\* C18: when a glossary built by add_term, remove_term, merge_glossary and
\* clear calls is written by save_to_file and the file is then read by
\* load_from_file, the loading glossary ends with the same three maps as the
\* glossary that was saved.
C18_RoundTrip ==
    (LastCall("load_from_file") /\ fn_call.op.outcome = "ok" /\ fn_call.saved.valid) =>
        /\ fn_call.op.result
        /\ After = fn_call.saved.g

\* A fresh glossary loads the file of a glossary that holds a trimmed term
\* with a count and a context.
C18_Witness ==
    /\ LastCall("load_from_file")
    /\ fn_call.op.result
    /\ fn_call.saved.valid
    /\ Before = NewGlossary
    /\ After.terms = (<<Hello>> :> <<World>>)
    /\ After.usage_count = (<<Hello>> :> 1)
    /\ After.context = (<<Hello>> :> << <<Hello>> >>)

\* ------------------------------------------ split_text_into_chunks on its own
MaxChunkText == 4
MaxChunkSize == 6

\* Characters of the texts that are split: a letter, a run of 512 letters, the
\* two characters of the delimiter, and a newline.
ChunkAlphabet == {Ch("x"), XRun(max_chunk_size), Ch("."), Ch(" "), Ch("\n")}

RECURSIVE ChunkTextsUpTo(_)
ChunkTextsUpTo(k) ==
    IF k = 0 THEN {<<>>}
    ELSE LET shorter == ChunkTextsUpTo(k - 1)
         IN shorter \cup {Append(t, c) : t \in shorter, c \in ChunkAlphabet}

\* The values of max_chunk_size: small ones and the default.
ChunkSizes == (1..MaxChunkSize) \cup {max_chunk_size}

InitChunk ==
    /\ InitProcess
    /\ env = BareEnvironment
    /\ \E text \in ChunkTextsUpTo(MaxChunkText), max_size \in ChunkSizes :
         fn_call = [fn |-> "split_text_into_chunks", text |-> text,
                    max_size |-> max_size, done |-> FALSE, chunks |-> <<>>]

\* split_text_into_chunks(text, max_chunk_size)
CallSplitTextIntoChunks ==
    /\ fn_call.fn = "split_text_into_chunks"
    /\ ~fn_call.done
    /\ fn_call' = [fn_call EXCEPT
           !.done = TRUE,
           !.chunks = split_text_into_chunks(fn_call.text, fn_call.max_size)]
    /\ ProcessUnchanged

NextChunk == CallSplitTextIntoChunks

SpecChunk == InitChunk /\ [][NextChunk]_vars

\* ------------------------------------------------------------------ C19
Split == fn_call.fn = "split_text_into_chunks" /\ fn_call.done

\* The sentence fragments of the text that was split.
Fragments == SplitSentences(ReplaceNewlines(fn_call.text))

\* The unit is one fragment with its period, trimmed, and the fragment is at
\* least `least` characters long. (A unit made of several fragments has a ". "
\* inside, which a fragment with its period never has.)
IsSingleFragment(unit, least) ==
    \E i \in 1..Len(Fragments) :
        /\ unit = Strip(Fragments[i] \o <<Ch("."), Ch(" ")>>)
        /\ StrLen(Fragments[i]) >= least

StartSeries == StartNovelOn({"series.zip"})

NextInference ==
    StartSeries \/ ExtractZip \/ GetChapterFiles \/ AnalyzeSample \/ FinishAnalysis

SpecInference == Init /\ [][NextInference]_vars

\* ------------------------------------------------------------------ C20
\* analyze_novel_languages has returned and translate_novel has not yet acted
\* on the result.
Inferred == pc = "branch"

\* How many of the samples were detected as lang.
RECURSIVE TimesDetected(_, _)
TimesDetected(samples, lang) ==
    IF samples = <<>> THEN 0
    ELSE (IF Head(samples).lang = lang THEN 1 ELSE 0) + TimesDetected(Tail(samples), lang)

\* The index of the first sample detected as lang.
FirstDetected(samples, lang) ==
    CHOOSE i \in 1..Len(samples) :
        /\ samples[i].lang = lang
        /\ \A n \in 1..(i - 1) : samples[n].lang # lang

Detected(samples) == {samples[i].lang : i \in 1..Len(samples)} \ {"failed"}

\* C20: translate_novel infers the source language from the first 3 chapter
\* files in sorted order, or from all of them when there are fewer: the result
\* is the language detected for the most samples, among languages detected
\* equally often the one whose first detection came first, a sample whose read
\* or detection raises counts for no language, and the result is "en" when
\* every sample fails.
C20_InfersFromFirstThree ==
    Inferred =>
        /\ IsSortedByName(nv.chapter_files)
        /\ Len(nv.samples) = (IF Len(nv.chapter_files) < 3
                              THEN Len(nv.chapter_files) ELSE 3)
        /\ \A i \in 1..Len(nv.samples) : nv.samples[i].path = nv.chapter_files[i].path
        /\ IF Detected(nv.samples) = {}
           THEN nv.source_lang = "en"
           ELSE /\ nv.source_lang \in Detected(nv.samples)
                /\ \A other \in Detected(nv.samples) \ {nv.source_lang} :
                       \/ TimesDetected(nv.samples, nv.source_lang)
                              > TimesDetected(nv.samples, other)
                       \/ /\ TimesDetected(nv.samples, nv.source_lang)
                                 = TimesDetected(nv.samples, other)
                          /\ FirstDetected(nv.samples, nv.source_lang)
                                 < FirstDetected(nv.samples, other)

\* Four chapter files, three samples: the first is detected as "es", the
\* second as "en", the third fails, and the tie goes to "es".
C20_Witness ==
    /\ Inferred
    /\ job.source = "series.zip"
    /\ Len(nv.chapter_files) = 4
    /\ nv.samples = << [path |-> <<"01.txt">>, lang |-> "es"],
                       [path |-> <<"02.txt">>, lang |-> "en"],
                       [path |-> <<"03.text">>, lang |-> "failed"] >>
    /\ nv.source_lang = "es"

\* Every sample fails and the result is "en".
C20_WitnessAllFail ==
    /\ Inferred
    /\ Len(nv.samples) = 3
    /\ Detected(nv.samples) = {}
    /\ nv.source_lang = "en"

\* ------------------------------------------------------------------ C21
\* The job took the same-language branch and has copied the tree.
Copied == job.kind = "novel" /\ nv.branch = "copy" /\ (pc = "archive" \/ JobEnded)

\* C21: when the language inferred for the archive equals the target
\* language, translate_novel enters the chapter pipeline for no file, leaves
\* both glossaries as they were when the job started, and the output tree, and
\* the archive made from it, holds every extracted file at the same relative
\* path with the same content.
C21_SameLanguageCopies ==
    Copied =>
        /\ nv.source_lang = job.target_lang
        /\ nv.attempted = <<>>
        /\ nv.results = <<>>
        /\ tc = NoTc
        /\ tsc = NoTsc
        /\ novel_glossary = nv.novel_glossary_at_start
        /\ chapter_glossary = nv.chapter_glossary_at_start
        /\ pc = "archive" =>
               /\ DOMAIN temp_dir.translated = DOMAIN temp_dir.extracted
               /\ \A p \in DOMAIN temp_dir.extracted :
                      temp_dir.translated[p] = temp_dir.extracted[p]
        /\ JobEnded =>
               /\ novel_ret = "returned"
               /\ DOMAIN permanent_zip.files = DOMAIN extract_zip(job.source)
               /\ \A p \in DOMAIN permanent_zip.files :
                      permanent_zip.files[p] = extract_zip(job.source)[p]

\* novel.zip, a chapter in a directory and a picture beside it, detected as the
\* target language: both files are in the archive returned.
C21_Witness ==
    /\ Copied
    /\ JobEnded
    /\ job.source = "novel.zip"
    /\ permanent_zip.files[<<"part1", "01.TXT">>] = AliceText
    /\ permanent_zip.files[<<"cover.png">>] = Picture

\* ------------------------------------------------------ extract_zip on its own
MaxMembers == 3

\* Entries an archive can hold: an absolute name, two names with a ".."
\* segment, a name with two dots inside a file name, and two ordinary names.
MemberPool ==
    { [path |-> <<"/", "etc", "passwd">>, data |-> Picture],
      [path |-> <<"..", "evil.txt">>, data |-> HelloWorld],
      [path |-> <<"part1", "..", "02.txt">>, data |-> HelloAgain],
      [path |-> <<"ch..1.txt">>, data |-> AliceText],
      [path |-> <<"part1", "01.TXT">>, data |-> AliceText],
      [path |-> <<"01.txt">>, data |-> HelloWorld] }

RECURSIVE MembersUpTo(_)
MembersUpTo(k) ==
    IF k = 0 THEN {<<>>}
    ELSE LET shorter == MembersUpTo(k - 1)
         IN shorter \cup {Append(m, e) : m \in shorter, e \in MemberPool}

InitExtract ==
    /\ InitProcess
    /\ env = BareEnvironment
    /\ \E members \in MembersUpTo(MaxMembers) :
         fn_call = [fn |-> "extract_zip", members |-> members, done |-> FALSE,
                    extracted |-> EmptyMap]

\* extract_zip(zip_path, extract_to) on a readable archive
CallExtractZip ==
    /\ fn_call.fn = "extract_zip"
    /\ ~fn_call.done
    /\ fn_call' = [fn_call EXCEPT !.done = TRUE,
                                  !.extracted = extract_members(fn_call.members)]
    /\ ProcessUnchanged

NextExtract == CallExtractZip

SpecExtract == InitExtract /\ [][NextExtract]_vars

\* ------------------------------------------------------------------ C22
\* The name is an absolute path, or one of its segments is "..".
IsTraversal(path) == path[1] = "/" \/ \E i \in 1..Len(path) : path[i] = ".."

\* C22: extract_zip extracts no entry whose name is absolute or has a ".."
\* segment, and extracts every other entry of the archive under the
\* extraction root, at its path and with its content.
C22_SkipsOnlyTraversal ==
    (fn_call.fn = "extract_zip" /\ fn_call.done) =>
        \A i \in 1..Len(fn_call.members) :
            LET member == fn_call.members[i] IN
            IF IsTraversal(member.path)
            THEN member.path \notin DOMAIN fn_call.extracted
            ELSE /\ member.path \in DOMAIN fn_call.extracted
                 /\ fn_call.extracted[member.path] = member.data

\* ------------------------------------- translate_novel on nested directories
\* Jobs on an archive whose two chapters lie in different directories, the
\* file name that sorts first under the directory that sorts last.
StartVolumes == StartNovelOn({"volumes.zip"})

NextVolumes ==
    \/ StartVolumes \/ ExtractZip \/ GetChapterFiles \/ AnalyzeSample \/ FinishAnalysis
    \/ CopyTree \/ BuildNovelGlossary \/ NextChapter \/ ReadChapter \/ TranslateChunk
    \/ JoinChunks \/ SaveChapter \/ HandleChapterResult \/ CreateArchive

SpecVolumes == Init /\ [][NextVolumes]_vars

\* ------------------------------------------------------------------ C23
\* The job is in, or has left, the translation branch.
Translating == job.kind = "novel" /\ nv.branch = "translate"

\* Chapters are entered in non-decreasing order of file name, and a chapter is
\* entered only when every chapter before it has been dealt with.
OneAtATimeInNameOrder ==
    /\ \A i, j \in 1..Len(nv.attempted) :
           i < j => NameRank(FileName(nv.attempted[i])) <= NameRank(FileName(nv.attempted[j]))
    /\ \A i, j \in 1..Len(nv.attempted) : nv.attempted[i] = nv.attempted[j] => i = j
    /\ Len(nv.results) <= Len(nv.attempted)
    /\ Len(nv.attempted) <= Len(nv.results) + 1
    /\ \A i \in 1..Len(nv.results) : nv.results[i].path = nv.attempted[i]
    /\ Len(nv.attempted) = Len(nv.results) + 1 <=>
           pc \in {"tc_read", "tc_chunk", "tc_done", "tsc_done"}
    /\ pc \in {"tc_read", "tc_chunk", "tc_done", "tsc_done"} =>
           tsc.output_path = nv.attempted[Len(nv.attempted)]

\* C23: in the translation branch chapter files are processed one at a time in
\* non-decreasing order of file name, a file is finished before the next is
\* started, and when the job is over each discovered file has been written
\* once, at the relative path it had under the extraction root.
C23_OrderedAndWrittenOnce ==
    Translating =>
        /\ OneAtATimeInNameOrder
        /\ \A p \in DOMAIN temp_dir.translated :
               \E i \in 1..Len(nv.attempted) : nv.attempted[i] = p
        /\ JobEnded =>
               /\ novel_ret = "returned"
               /\ SeqToSet(nv.attempted) = ChapterPaths(job.source)
               /\ \A p \in ChapterPaths(job.source) : p \in DOMAIN permanent_zip.files

\* The part of C23 that holds: the order, one file at a time, and no write
\* outside the mirrored paths of the files entered so far.
C23_OrderedWhileRunning ==
    Translating =>
        /\ OneAtATimeInNameOrder
        /\ \A p \in DOMAIN temp_dir.translated :
               \E i \in 1..Len(nv.attempted) : nv.attempted[i] = p

\* vol2/01.txt was finished before vol1/02.txt was entered.
C23_OrderWitness ==
    /\ Translating
    /\ job.source = "volumes.zip"
    /\ nv.attempted = << <<"vol2", "01.txt">>, <<"vol1", "02.txt">> >>
    /\ JobEnded
    /\ novel_ret = "returned"


\* ------------------------------------------------------------------ C24
\* The buffer made of fragments a..b, each followed by its ". ".
RECURSIVE Buffer(_, _)
Buffer(a, b) ==
    IF a > b THEN <<>>
    ELSE Fragments[a] \o <<Ch("."), Ch(" ")>> \o Buffer(a + 1, b)

\* The first fragment of the unit that holds fragment i, when units end after
\* the fragments in cuts.
UnitStart(cuts, i) ==
    IF \E c \in cuts : c < i
    THEN 1 + CHOOSE c \in cuts : c < i /\ \A d \in cuts : d < i => d <= c
    ELSE 1

\* The last fragment of unit n.
UnitEnd(cuts, n) ==
    LET ends == cuts \cup {Len(Fragments)}
    IN CHOOSE e \in ends : Cardinality({d \in ends : d < e}) = n - 1

\* C24: split_text_into_chunks loses and duplicates no sentence fragment. The
\* fragments of the newline-normalized text, split on ". ", fall into
\* consecutive groups, one per unit and in their original order; each unit is
\* its group's fragments, each followed by ". ", trimmed; and a unit ends after
\* a fragment exactly when the buffer with the next fragment and its ". "
\* would be longer than the maximum size.
C24_FragmentsKeptInOrder ==
    Split =>
        \E cuts \in SUBSET (1..(Len(Fragments) - 1)) :
            /\ Len(fn_call.chunks) = Cardinality(cuts) + 1
            /\ \A n \in 1..Len(fn_call.chunks) :
                   fn_call.chunks[n] =
                       Strip(Buffer(UnitStart(cuts, UnitEnd(cuts, n)), UnitEnd(cuts, n)))
            /\ \A i \in 1..(Len(Fragments) - 1) :
                   i \in cuts <=>
                       StrLen(Buffer(UnitStart(cuts, i), i))
                           + StrLen(Fragments[i + 1]) + 2 > fn_call.max_size

\* ". . " split at size 4: three empty fragments, the first two share a unit
\* and the third is flushed into a unit of its own.
C24_Witness ==
    /\ Split
    /\ fn_call.text = <<Ch("."), Ch(" "), Ch("."), Ch(" ")>>
    /\ fn_call.max_size = 4
    /\ Len(Fragments) = 3
    /\ fn_call.chunks = << <<Ch("."), Ch(" "), Ch(".")>>, <<Ch(".")>> >>


\* ------------------------------------------------------------------ C25
\* C25: translate_chapter raises to its caller when the source file is
\* missing, and when the text it read is empty or only whitespace it returns
\* the empty string: the language was not detected, no model was loaded, the
\* text was not chunked, the backend was not called and chapter_glossary is as
\* it was when the call was entered.
C25_MissingRaisesBlankReturnsEmpty ==
    /\ (pc = "tc_done" /\ ~tc.file.exists) => tc.raised
    /\ (pc = "tc_done" /\ tc.file.exists /\ Strip(tc.file.data) = <<>> /\ ~tc.raised) =>
           /\ tc.result = <<>>
           /\ tc.source_lang = NoTc.source_lang
           /\ tc.model_session = "None"
           /\ ~tc.chunked
           /\ tc.backend_calls = 0
           /\ chapter_glossary = tc.glossary_at_entry
    /\ (pc = "idle" /\ job.kind = "chapter" /\ job.source = Missing) => chapter_ret.raised
    /\ (pc = "idle" /\ job.kind = "chapter" /\ job.source = BlankText /\ ~chapter_ret.raised) =>
           chapter_ret.text = <<>>

\* A whitespace-only chapter has returned "" in a process whose glossary an
\* earlier call had filled.
C25_Witness ==
    /\ pc = "idle"
    /\ job.kind = "chapter"
    /\ job.source = BlankText
    /\ chapter_ret = [raised |-> FALSE, text |-> <<>>]
    /\ chapter_glossary # NewGlossary

\* A call on a missing file has raised.
C25_WitnessMissing ==
    /\ pc = "idle"
    /\ job.kind = "chapter"
    /\ job.source = Missing
    /\ chapter_ret.raised


\* ------------------------------------------ Glossary.find_similar_terms
\* A string spelled one character to a token.
Chars(letters) == [i \in 1..Len(letters) |-> Ch(letters[i])]

\* str.lower(), for the letters the terms below are spelled with.
LowerChar(c) ==
    CASE c = "D" -> "d"
      [] c = "E" -> "e"
      [] c = "G" -> "g"
      [] OTHER -> c

Lower(text) == [i \in 1..Len(text) |-> [text[i] EXCEPT !.s = LowerChar(@)]]

\* a in b
Contains(a, b) ==
    \E i \in 0..(Len(b) - Len(a)) : SubSeq(b, i + 1, i + Len(a)) = a

\* set(text)
CharSet(text) == {text[i].s : i \in 1..Len(text)}

\* len(set(term) & set(original_lower)) >= min(len(term), len(original_lower)) * 0.7
SharesCharacters(term, original_lower) ==
    10 * Cardinality(CharSet(term) \cap CharSet(original_lower))
        >= 7 * (IF StrLen(term) < StrLen(original_lower)
                THEN StrLen(term) ELSE StrLen(original_lower))

\* The loop over self._terms.keys(), the keys in the dict's insertion order.
RECURSIVE SimilarLoop(_, _)
SimilarLoop(keys, term) ==
    IF keys = <<>> THEN <<>>
    ELSE LET original == Head(keys)
             original_lower == Lower(original)
             rest == SimilarLoop(Tail(keys), term)
         IN IF original_lower = term THEN rest
            ELSE IF Contains(term, original_lower) \/ Contains(original_lower, term)
                 THEN <<original>> \o rest
            ELSE IF SharesCharacters(term, original_lower) THEN <<original>> \o rest
            ELSE rest

\* similar_terms.sort(key=lambda x: self._usage_count.get(x, 0), reverse=True):
\* the sort is stable, so each term goes behind the terms that are used at
\* least as often and came before it.
RECURSIVE SortByUsage(_, _)
SortByUsage(g, list) ==
    IF list = <<>> THEN <<>>
    ELSE LET sorted == SortByUsage(g, SubSeq(list, 1, Len(list) - 1))
             x == list[Len(list)]
             ahead == {i \in 1..Len(sorted) :
                          Get(g.usage_count, sorted[i], 0) >= Get(g.usage_count, x, 0)}
             k == Cardinality(ahead)
         IN SubSeq(sorted, 1, k) \o <<x>> \o SubSeq(sorted, k + 1, Len(sorted))

\* A search that leaves the exact match among its results.
KeepExactMatch(g, keys, term, limit) ==
    IF ~Truthy(term) \/ Strip(term) = <<>> THEN <<>>
    ELSE LET term_lower == Lower(Strip(term))
             similar(original) ==
                 \/ Contains(term_lower, Lower(original))
                 \/ Contains(Lower(original), term_lower)
                 \/ SharesCharacters(term_lower, Lower(original))
         IN FirstN(SortByUsage(g, SelectSeq(keys, similar)), limit)

\* find_similar_terms(term, max_results); keys is self._terms.keys().
find_similar_terms(g, keys, term, limit) ==
    IF ~Truthy(term) \/ Strip(term) = <<>> THEN <<>>
    ELSE FirstN(SortByUsage(g, SimilarLoop(keys, Lower(Strip(term)))), limit)

\* ------------------------------------------- find_similar_terms on its own
MaxSimilarOps == 4
max_results == 5

Dragon == Chars(<<"D", "r", "a", "g", "o", "n">>)
dragon == Chars(<<"d", "r", "a", "g", "o", "n">>)
Dragons == Chars(<<"D", "r", "a", "g", "o", "n", "s">>)
Gordan == Chars(<<"G", "o", "r", "d", "a", "n">>)
rag == Chars(<<"r", "a", "g">>)
Elf == Chars(<<"E", "l", "f">>)

StoredTerms == {dragon, Dragons, Gordan, rag, Elf}
Queries == {Dragon, <<Ch(" ")>> \o Dragon \o <<Ch(" ")>>, rag, Elf, <<>>, <<Ch(" ")>>, None}
Limits == {1, 2, max_results}

NoSearch == [term |-> None, limit |-> 0, result |-> <<>>]

\* A glossary, the insertion order of its term map, and the last search.
InitSimilar ==
    /\ InitProcess
    /\ env = BareEnvironment
    /\ fn_call = [fn |-> "find_similar_terms", self |-> NewGlossary, keys |-> <<>>,
                  ops |-> 0, done |-> FALSE, search |-> NoSearch]

\* glossary.add_term(original, translated): a new key goes to the end of the
\* term map, a known key keeps its place.
SimilarAddTerm ==
    /\ fn_call.fn = "find_similar_terms"
    /\ fn_call.ops < MaxSimilarOps
    /\ \E original \in StoredTerms :
         fn_call' = [fn_call EXCEPT
             !.self = add_term(@, original, <<World>>, None),
             !.keys = IF InList(original, @) THEN @ ELSE Append(@, original),
             !.ops = @ + 1,
             !.done = FALSE,
             !.search = NoSearch]
    /\ ProcessUnchanged

\* glossary.find_similar_terms(term, max_results)
CallFindSimilarTerms ==
    /\ fn_call.fn = "find_similar_terms"
    /\ ~fn_call.done
    /\ \E term \in Queries, limit \in Limits :
         fn_call' = [fn_call EXCEPT
             !.done = TRUE,
             !.search = [term |-> term, limit |-> limit,
                         result |-> find_similar_terms(fn_call.self, fn_call.keys,
                                                       term, limit)]]
    /\ ProcessUnchanged

NextSimilar == SimilarAddTerm \/ CallFindSimilarTerms

SpecSimilar == InitSimilar /\ [][NextSimilar]_vars

\* ------------------------------------------------------------------ C26
Searched == fn_call.fn = "find_similar_terms" /\ fn_call.done

\* The place of a stored term in the term map.
KeyIndex(original) == CHOOSE i \in 1..Len(fn_call.keys) : fn_call.keys[i] = original

\* The results come by descending usage count, terms of equal count in the
\* order of the term map.
RankedByUsage(result) ==
    \A i, j \in 1..Len(result) :
        i < j =>
            LET ci == Get(fn_call.self.usage_count, result[i], 0)
                cj == Get(fn_call.self.usage_count, result[j], 0)
            IN ci > cj \/ (ci = cj /\ KeyIndex(result[i]) < KeyIndex(result[j]))

\* Every stored term that contains the query, or is contained in it, ignoring
\* case, and is not equal to it, is among the results, unless the results are
\* cut at the limit.
ContainmentFound(query, result, limit) ==
    \A original \in DOMAIN fn_call.self.terms :
        ( /\ Lower(original) # Lower(query)
          /\ \/ Contains(Lower(query), Lower(original))
             \/ Contains(Lower(original), Lower(query)) )
        => InList(original, result) \/ Len(result) = limit

NoExactMatch(query, result) ==
    \A i \in 1..Len(result) : Lower(result[i]) # Lower(query)

\* C26 as the spec states it: find_similar_terms(term) never returns a stored
\* term equal to the query ignoring case, returns every stored term that
\* contains the query or is contained in it ignoring case (up to max_results),
\* and orders its results by descending usage count, equal counts in encounter
\* order.
C26_SimilarToQuery ==
    (Searched /\ fn_call.search.term # None) =>
        LET s == fn_call.search IN
        /\ NoExactMatch(s.term, s.result)
        /\ ContainmentFound(s.term, s.result, s.limit)
        /\ RankedByUsage(s.result)

\* C26, amended: the query is trimmed first. For a query that is not blank
\* find_similar_terms never returns a stored term equal to the trimmed query
\* ignoring case, returns every stored term that contains the trimmed query or
\* is contained in it ignoring case (up to max_results), and orders its
\* results by descending usage count, equal counts in encounter order; for a
\* blank query it returns nothing.
C26_SimilarToTrimmedQuery ==
    Searched =>
        LET s == fn_call.search IN
        IF ~Truthy(s.term) \/ Strip(s.term) = <<>> THEN s.result = <<>>
        ELSE /\ NoExactMatch(Strip(s.term), s.result)
             /\ ContainmentFound(Strip(s.term), s.result, s.limit)
             /\ RankedByUsage(s.result)
             /\ Len(s.result) <= s.limit

\* "Dragon" is looked up in a glossary that holds "dragon", "Dragons" and
\* "rag": "dragon" is left out, and "rag", used twice, comes before "Dragons".
C26_Witness ==
    /\ Searched
    /\ fn_call.search.term = Dragon
    /\ fn_call.keys = <<dragon, Dragons, rag>>
    /\ fn_call.self.usage_count[rag] = 2
    /\ fn_call.search.result = <<rag, Dragons>>


\* ------------------------------------------------------------------ C27
\* C27: what translate_chapter returns for a source text and a target language
\* does not depend on the translate_chapter calls made before it. In
\* particular, with no backend model, every chunk of a call for target L is
\* translated to the '[L]' placeholder of that chunk, also when the same chunk
\* was translated earlier for another target language.
C27_PlaceholderOfTarget ==
    (pc \in {"tc_chunk", "tc_done"} /\ tc.model_session = "None" /\ tc.step.kind # "none") =>
        tc.step.translated = MockTranslation(tc.step.chunk, tc.target_lang)


\* ------------------------------------------------------------------ C28
\* C28: the archive at the path a translate_novel call returned keeps that
\* job's content. No later job returns the path at which an earlier job's
\* archive lies, so no job moves its archive over one that was returned
\* before: two jobs never return the same output path.
C28_ReturnedArchiveKept ==
    [][permanent_zip.exists =>
           /\ permanent_zip' = permanent_zip
           /\ ~(pc # "idle" /\ pc' = "idle" /\ novel_ret' = "returned")]_vars


\* ------------------------------------------------------------------ C29
\* A job on the translation branch that has not raised.
TranslatingJob == Translating /\ novel_ret \in {"running", "returned"}

\* The text at a path of the output tree, in the archive once the job has
\* returned.
Written(path) ==
    IF pc = "idle" THEN permanent_zip.files[path] ELSE temp_dir.translated[path]

\* The text of the chapter file as it was extracted.
Original(path) == extract_zip(job.source)[path]

Failed(r) == ~r.success /\ InList(FileName(r.path), nv.failed_chapters)

\* C29 as the spec states it: in a job whose inferred source language differs
\* from the target, every chapter file the job has dealt with is either
\* translated, its output differing from a verbatim copy, or in the failure
\* list; no file is written unchanged and counted as a success, also when the
\* chapter's own detected language is the target.
C29_TranslatedOrFailed ==
    TranslatingJob =>
        /\ \A i \in 1..Len(nv.results) :
               LET r == nv.results[i] IN
               Failed(r) \/ Written(r.path) # Original(r.path)
        /\ novel_ret = "returned" =>
               ChapterPaths(job.source) = {nv.results[i].path : i \in 1..Len(nv.results)}

\* C29, amended: every chapter file the job has dealt with ends in one of
\* four ways. It is in the failure list and written as a verbatim copy; or it
\* is counted as a success and written with what translate_chapter returned:
\* the original text when the chapter's own detected language is the target,
\* the empty text when the chapter is blank, and otherwise the joined
\* translations of its chunks, which differ from a verbatim copy when no
\* backend model is loaded.
C29_TranslatedFailedOrSkipped ==
    TranslatingJob =>
        /\ \A i \in 1..Len(nv.results) :
               LET r == nv.results[i] IN
               \/ Failed(r) /\ Written(r.path) = Original(r.path)
               \/ /\ r.success
                  /\ r.source_lang = job.target_lang
                  /\ Written(r.path) = Original(r.path)
               \/ /\ r.success
                  /\ r.source_lang = NoTc.source_lang
                  /\ Strip(Original(r.path)) = <<>>
                  /\ Written(r.path) = <<>>
               \/ /\ r.success
                  /\ r.source_lang \notin {NoTc.source_lang, job.target_lang}
                  /\ load_translation_model(r.source_lang, job.target_lang, env) = "None"
                         => Written(r.path) # Original(r.path)
        /\ novel_ret = "returned" =>
               ChapterPaths(job.source) = {nv.results[i].path : i \in 1..Len(nv.results)}

\* A job inferred to be English has returned; one chapter was detected as
\* Spanish, the target, and is in the archive unchanged and not in the failure
\* list, one went through the chunks and came out changed.
C29_Witness ==
    /\ TranslatingJob
    /\ novel_ret = "returned"
    /\ nv.source_lang = "en"
    /\ nv.failed_chapters = <<>>
    /\ \E i, j \in 1..Len(nv.results) :
           /\ nv.results[i].success
           /\ nv.results[i].source_lang = job.target_lang
           /\ Written(nv.results[i].path) = Original(nv.results[i].path)
           /\ nv.results[j].success
           /\ nv.results[j].source_lang = "en"
           /\ Written(nv.results[j].path) # Original(nv.results[j].path)


\* ------------------------------------------------------------------ C30
\* The three maps of a glossary agree: the usage-count map has the keys of the
\* term map, every count is at least 1, and the context map has no key the
\* term map lacks.
MapsAgree(g) ==
    /\ DOMAIN g.usage_count = DOMAIN g.terms
    /\ \A term \in DOMAIN g.usage_count : g.usage_count[term] >= 1
    /\ DOMAIN g.context \subseteq DOMAIN g.terms

\* C30: after any sequence of add_term, remove_term, merge_glossary, clear and
\* load_from_file calls the maps of a glossary agree, and a remove_term that
\* found the term has removed its translation, its usage count and its context
\* together.
C30_MapsAgree ==
    fn_call.fn = "Glossary" =>
        /\ MapsAgree(fn_call.self)
        /\ MapsAgree(fn_call.other)
        /\ (LastCall("remove_term") /\ fn_call.op.result) =>
               LET term == Strip(fn_call.op.original) IN
               /\ term \in DOMAIN Before.terms
               /\ term \notin DOMAIN After.terms
               /\ term \notin DOMAIN After.usage_count
               /\ term \notin DOMAIN After.context


\* The operations that keep the maps in step, without the file: C30_MapsAgree
\* is an invariant of this specification.
NextInMemory == AddTerm \/ RemoveTerm \/ MergeGlossary \/ Clear

SpecInMemory == InitGlossary /\ [][NextInMemory]_vars

====
